---------------------------- MODULE Spec2Model ----------------------------
(***************************************************************************)
(* Facility inventory manager: the category, asset, lending and user       *)
(* handlers over the relational store (server/src/handlers, db/schema).    *)
(*                                                                         *)
(* Every handler is an async function: each `await db....execute()` is one *)
(* autocommitted statement of the store, and other requests may run        *)
(* between two statements of the same handler.  A call is therefore a      *)
(* small process: it is started with its input, takes one step per store   *)
(* statement (the step includes the synchronous code up to the next        *)
(* await), ends in "done" with its result, and is then returned to the     *)
(* caller.  Spec runs the calls one at a time (sequences of completed      *)
(* calls); SpecConc interleaves the statements of up to NumProcs calls.    *)
(*                                                                         *)
(* Rows keep the columns the handlers branch on, the lifecycle writes or   *)
(* the reports read.  Free-text columns that are only copied (asset name,  *)
(* description, serial_number, location, purchase_date, borrower_email,    *)
(* borrower_phone, department, password_hash, role) and the timestamps     *)
(* that are only written (created_at, updated_at) are not part of the      *)
(* state; borrower_name and notes stand for the copied lending columns,    *)
(* and an asset's id stands for its name.                                  *)
(***************************************************************************)
EXTENDS Integers, FiniteSets, Sequences, TLC

(* ------------------------------ bounds --------------------------------- *)
NumProcs == 2
MaxCategories == 1
MaxAssets == 2
MaxLendings == 2
MaxUsers == 2
MaxTime == 2
\* The largest count of assets or of active lendings of one category for
\* which the rounding of the utilization rate is computed on its own.
MaxCount == 10

Procs == 1..NumProcs
CategoryIds == 1..MaxCategories
AssetIds == 1..MaxAssets
LendingIds == 1..MaxLendings
UserIds == 1..MaxUsers
\* The user ids a request may name: the last one is never assigned.
AnyUserIds == 1..(MaxUsers + 1)
\* Likewise for the category ids.
AnyCategoryIds == 1..(MaxCategories + 1)
Times == 1..MaxTime

(* --------------------------- value domains ----------------------------- *)
\* JavaScript's undefined (an omitted optional field) and null, as markers
\* among the string values; NoId / NoDate are null in an id or date column.
Undefined == "undefined"
Null == "null"
NoId == 0
NoDate == 0

\* JavaScript truthiness of a string-or-null-or-undefined value (x || y).
Truthy(s) == s \notin {Undefined, Null, ""}
OrElse(s, dflt) == IF Truthy(s) THEN s ELSE dflt

\* A JavaScript number with at most two decimals, as its whole part and its
\* hundredths; an optional number that is undefined or null.
Number(whole, cents) == [whole |-> whole, cents |-> cents]
UndefinedNumber == [missing |-> Undefined]
NullNumber == [missing |-> Null]
IsNumber(v) == "whole" \in DOMAIN v
\* x ? ... : ... on an optional number: undefined, null and 0 are falsy.
TruthyNumber(v) == IsNumber(v) /\ (v.whole # 0 \/ v.cents # 0)

\* Number.prototype.toString(): the decimal digits without trailing zeros
\* (1500.5 for 1500.50), as the integer part and the fraction digits.
numberToString(v) ==
  [int |-> v.whole,
   frac |-> IF v.cents = 0 THEN <<>>
            ELSE IF v.cents % 10 = 0 THEN <<v.cents \div 10>>
            ELSE <<v.cents \div 10, v.cents % 10>>]

\* numeric(precision 10, scale 2): at most eight digits before the point,
\* and the value is kept with exactly two digits after it.
NumericIntegerLimit == 100000000
NumericOverflows(str) == str.int >= NumericIntegerLimit
numericColumn(str) ==
  [int |-> str.int,
   frac |-> IF Len(str.frac) = 0 THEN <<0, 0>>
            ELSE IF Len(str.frac) = 1 THEN <<str.frac[1], 0>>
            ELSE <<str.frac[1], str.frac[2]>>]

\* Mutant: the string is parsed as an integer, its fraction dropped.
parseFloat_parseInt(str) == Number(str.int, 0)

\* parseFloat of a decimal string.
parseFloat(str) ==
  Number(str.int,
         IF Len(str.frac) = 0 THEN 0
         ELSE IF Len(str.frac) = 1 THEN 10 * str.frac[1]
         ELSE 10 * str.frac[1] + str.frac[2])

\* input.price ? input.price.toString() : null, as the column then holds it.
priceColumn(v) ==
  IF TruthyNumber(v) THEN numericColumn(numberToString(v)) ELSE NullNumber
\* row.price ? parseFloat(row.price) : null (a numeric string is not empty).
priceOf(column) ==
  IF "int" \in DOMAIN column THEN parseFloat(column) ELSE NullNumber

assetStatusEnum == {"available", "lent", "maintenance", "damaged", "retired"}
lendingStatusEnum == {"active", "returned", "overdue"}
assetConditionEnum == {"good", "damaged", "needs_maintenance"}
reportTypeEnum == {"inventory", "lending", "returns", "overdue", "category_summary"}

\* Error messages thrown by the handlers, and the store's own errors.
OK == "ok"
AssetNotFound == "Asset not found"
AssetNotAvailable == "Asset is not available for lending"
UserNotFound == "User not found"
LendingNotFound == "Lending record not found"
LendingNotActive == "Lending record is not active"
AssetIdNotFound == "Asset with id not found"
CategoryIdNotFound == "Category with id not found"
CategoryDoesNotExist == "Category with id does not exist"
AssetHasLendingHistory == "Cannot delete asset that has lending history"
CategoryHasAssets == "Cannot delete category with N associated assets"
UsernameExists == "Username already exists"
EmailExists == "Email already exists"
ForeignKeyViolation == "store: foreign key violation"
UniqueViolation == "store: unique violation"
TypeErrorUndefined == "TypeError: undefined row"
NumericOverflow == "store: numeric field overflow"
InvalidEnumValue == "store: invalid input value for enum asset_status"
UnsupportedReportType == "Unsupported report type"

NotFoundOrConflict ==
  {AssetNotFound, AssetNotAvailable, UserNotFound, LendingNotFound,
   LendingNotActive, AssetIdNotFound, CategoryIdNotFound,
   CategoryDoesNotExist, AssetHasLendingHistory, CategoryHasAssets,
   UsernameExists, EmailExists}

(* ------------------------------ state ---------------------------------- *)
VARIABLES
  categories,   \* categoriesTable: id -> row
  assets,       \* assetsTable: id -> row
  lendings,     \* lendingsTable: id -> row
  users,        \* usersTable: id -> row
  serial,       \* the serial id sequences of the four tables
  now,          \* the clock read by new Date() and defaultNow()
  calls         \* the handler calls in flight, one slot per request

vars == <<categories, assets, lendings, users, serial, now, calls>>
tables == <<categories, assets, lendings, users, serial>>

\* The rows of the four tables, as one value (a call's snapshot at its start).
Store ==
  [categories |-> categories, assets |-> assets,
   lendings |-> lendings, users |-> users]

Idle == [op |-> "idle", pc |-> "idle"]

InFlight(p) == calls[p].pc \notin {"idle", "done"}
IsDone(p, op) == calls[p].op = op /\ calls[p].pc = "done"

\* A call after its first store statement: its input, where it goes on (pc,
\* or "done" with its result res), its locals, the store as the call found
\* it, the tables it has written so far and the calls it overlapped with.
Call(op, input, pc, res, loc) ==
  [op |-> op, pc |-> pc, input |-> input, res |-> res, loc |-> loc,
   pre |-> Store, wrote |-> <<>>, overlapped |-> {}]
Thrown(op, input, res) == Call(op, input, "done", res, <<>>)

\* Call c starts in slot p: every call in flight overlaps with it.
Begin(p, c) ==
  /\ calls[p] = Idle
  /\ LET running == {q \in Procs : InFlight(q)}
     IN calls' = [q \in Procs |->
                    IF q = p THEN [c EXCEPT !.overlapped = running]
                    ELSE IF q \in running /\ c.pc # "done"
                         THEN [calls[q] EXCEPT !.overlapped = @ \cup {p}]
                         ELSE calls[q]]

\* The step of call p at program point pc.
At(p, op, pc) == calls[p].op = op /\ calls[p].pc = pc

Goto(p, pc, loc) == calls' = [calls EXCEPT ![p].pc = pc, ![p].loc = loc]
\* The call throws (or returns) res and is over.
Finish(p, res) == calls' = [calls EXCEPT ![p].pc = "done", ![p].res = res]
\* p has executed a write on table t and goes on at pc (or is done with res).
Wrote(p, t, pc, res) ==
  calls' = [calls EXCEPT ![p].pc = pc, ![p].res = res,
                         ![p].wrote = Append(@, t)]

\* Calls of handler op that have not executed their insert yet: the serial
\* sequences are capped by counting them (the model's only bound on the
\* tables).
Pending(op) ==
  Cardinality({q \in Procs : calls[q].op = op /\ InFlight(q)
                             /\ calls[q].wrote = <<>>})

\* Mutant: the delete has no where clause and removes every row.
Remove_EveryRow(f, id) == [i \in {} |-> f[i]]

\* db.delete(table).where(eq(table.id, id))
Remove(f, id) == [i \in DOMAIN f \ {id} |-> f[i]]

Init ==
  /\ categories = <<>>
  /\ assets = <<>>
  /\ lendings = <<>>
  /\ users = <<>>
  /\ serial = [categories |-> 0, assets |-> 0, lendings |-> 0, users |-> 0]
  /\ now = 1
  /\ calls = [p \in Procs |-> Idle]

(* ============================ lendings.ts ============================== *)
\* Mutant: the availability check rejects only assets that are lent.
createLending_OnlyLentRejected(p, input) ==
  /\ serial.lendings + Pending("createLending") < MaxLendings
  /\ LET id == input.asset_id
     IN Begin(p, IF id \notin DOMAIN assets
                   THEN Thrown("createLending", input, AssetNotFound)
                 ELSE IF assets[id].status = "lent"
                   THEN Thrown("createLending", input, AssetNotAvailable)
                 ELSE Call("createLending", input, "selectUser", "pending", <<>>))
  /\ UNCHANGED <<tables, now>>

\* Mutant: the user is looked up and checked before the asset.
createLending_UserFirst(p, input) ==
  /\ serial.lendings + Pending("createLending") < MaxLendings
  /\ LET id == input.asset_id
     IN Begin(p, IF input.lent_by_user_id \notin DOMAIN users
                   THEN Thrown("createLending", input, UserNotFound)
                 ELSE IF id \notin DOMAIN assets
                   THEN Thrown("createLending", input, AssetNotFound)
                 ELSE IF assets[id].status # "available"
                   THEN Thrown("createLending", input, AssetNotAvailable)
                 ELSE Call("createLending", input, "selectUser", "pending", <<>>))
  /\ UNCHANGED <<tables, now>>

\* The call and its first statement: const asset = await db.select()
\* .from(assetsTable).where(id = asset_id), then the two checks on it.
createLending(p, input) ==
  /\ serial.lendings + Pending("createLending") < MaxLendings
  /\ LET id == input.asset_id
     IN Begin(p, IF id \notin DOMAIN assets
                   THEN Thrown("createLending", input, AssetNotFound)
                 ELSE IF assets[id].status # "available"
                   THEN Thrown("createLending", input, AssetNotAvailable)
                 ELSE Call("createLending", input, "selectUser", "pending", <<>>))
  /\ UNCHANGED <<tables, now>>

createLending_selectUser(p) ==
  /\ At(p, "createLending", "selectUser")
  /\ IF calls[p].input.lent_by_user_id \notin DOMAIN users
       THEN Finish(p, UserNotFound)
       ELSE Goto(p, "insertLending", <<>>)
  /\ UNCHANGED <<tables, now>>

\* db.insert(lendingsTable).values({...}).returning(): the store checks the
\* two foreign keys, assigns the serial id and the column defaults (lent_date
\* is defaultNow()).
createLending_insertLending(p) ==
  /\ At(p, "createLending", "insertLending")
  /\ LET input == calls[p].input
         id == serial.lendings + 1
     IN IF input.asset_id \notin DOMAIN assets
           \/ input.lent_by_user_id \notin DOMAIN users
        THEN /\ Finish(p, ForeignKeyViolation)
             /\ UNCHANGED tables
        ELSE /\ lendings' = lendings @@ (id :>
                  [asset_id |-> input.asset_id,
                   borrower_name |-> input.borrower_name,
                   lent_date |-> now,
                   expected_return_date |-> input.expected_return_date,
                   actual_return_date |-> NoDate,
                   status |-> "active",
                   notes |-> OrElse(input.notes, Null),
                   lent_by_user_id |-> input.lent_by_user_id,
                   returned_by_user_id |-> NoId])
             /\ serial' = [serial EXCEPT !.lendings = id]
             /\ calls' = [calls EXCEPT ![p].pc = "updateAsset",
                            ![p].loc = [lending_id |-> id],
                            ![p].wrote = Append(@, "lendings")]
             /\ UNCHANGED <<categories, assets, users>>
  /\ UNCHANGED now

\* Mutant: the asset update matches no row, the status stays as it was.
createLending_updateAsset_NoRow(p) ==
  /\ At(p, "createLending", "updateAsset")
  /\ Wrote(p, "assets", "done", OK)
  /\ UNCHANGED <<tables, now>>

\* Mutant: the asset update has no where clause and marks every asset lent.
createLending_updateAsset_EveryRow(p) ==
  /\ At(p, "createLending", "updateAsset")
  /\ assets' = [a \in DOMAIN assets |-> [assets[a] EXCEPT !.status = "lent"]]
  /\ Wrote(p, "assets", "done", OK)
  /\ UNCHANGED <<categories, lendings, users, serial, now>>

\* db.update(assetsTable).set({status: 'lent', updated_at}).where(id = asset_id)
createLending_updateAsset(p) ==
  /\ At(p, "createLending", "updateAsset")
  /\ LET id == calls[p].input.asset_id
     IN assets' = IF id \in DOMAIN assets
                    THEN [assets EXCEPT ![id].status = "lent"]
                    ELSE assets
  /\ Wrote(p, "assets", "done", OK)
  /\ UNCHANGED <<categories, lendings, users, serial, now>>

\* Mutant: the lendings are joined with the assets on the assets' category_id.
getLendings_JoinOnCategoryId ==
  {t \in (DOMAIN lendings) \X (DOMAIN assets) \X (DOMAIN categories) :
     /\ lendings[t[1]].asset_id = assets[t[2]].category_id
     /\ assets[t[2]].category_id = t[3]}

\* getLendings(): the lendings inner-joined with the assets on asset_id and
\* with the categories on category_id, one row (lending, asset, category) for
\* every match.
getLendings ==
  {t \in (DOMAIN lendings) \X (DOMAIN assets) \X (DOMAIN categories) :
     /\ lendings[t[1]].asset_id = t[2]
     /\ assets[t[2]].category_id = t[3]}

\* getActiveLendings(): the same join, where status = 'active'.
getActiveLendings ==
  {t \in (DOMAIN lendings) \X (DOMAIN assets) \X (DOMAIN categories) :
     /\ lendings[t[1]].asset_id = t[2]
     /\ assets[t[2]].category_id = t[3]
     /\ lendings[t[1]].status = "active"}

\* Mutant: the date comparison is lte, a lending due now is listed.
getOverdueLendings_DueNow ==
  {l \in DOMAIN lendings :
     /\ \E a \in DOMAIN assets :
          /\ lendings[l].asset_id = a
          /\ \E c \in DOMAIN categories : assets[a].category_id = c
     /\ lendings[l].status = "active"
     /\ lendings[l].expected_return_date <= now}

\* getOverdueLendings(): today = new Date(); the lendings, inner-joined with
\* their asset and its category, with status active and
\* expected_return_date < today (the ids of the rows returned).
getOverdueLendings ==
  {l \in DOMAIN lendings :
     /\ \E a \in DOMAIN assets :
          /\ lendings[l].asset_id = a
          /\ \E c \in DOMAIN categories : assets[a].category_id = c
     /\ lendings[l].status = "active"
     /\ lendings[l].expected_return_date < now}

\* Mutant: the lookup also filters on status active.
getLendingById_ActiveOnly(id) ==
  IF /\ id \in DOMAIN lendings
     /\ lendings[id].status = "active"
     /\ \E a \in DOMAIN assets :
          /\ lendings[id].asset_id = a
          /\ \E c \in DOMAIN categories : assets[a].category_id = c
    THEN <<lendings[id]>> ELSE <<>>

\* getLendingById(id): the lending with that id, inner-joined with its asset
\* and the asset's category; no row is null to the caller.
getLendingById(id) ==
  IF /\ id \in DOMAIN lendings
     /\ \E a \in DOMAIN assets :
          /\ lendings[id].asset_id = a
          /\ \E c \in DOMAIN categories : assets[a].category_id = c
    THEN <<lendings[id]>> ELSE <<>>

\* Mutant: the check that the lending is active is missing.
returnAsset_NoActiveCheck(p, input) ==
  /\ LET id == input.lending_id
     IN Begin(p, IF id \notin DOMAIN lendings
                   THEN Thrown("returnAsset", input, LendingNotFound)
                 ELSE Call("returnAsset", input, "selectUser", "pending",
                           [lending |-> lendings[id]]))
  /\ UNCHANGED <<tables, now>>

\* Mutant: the lending is marked returned before the user is looked up.
returnAsset_WriteFirst(p, input) ==
  /\ LET id == input.lending_id
     IN IF id \notin DOMAIN lendings
          THEN /\ Begin(p, Thrown("returnAsset", input, LendingNotFound))
               /\ UNCHANGED lendings
        ELSE IF lendings[id].status # "active"
          THEN /\ Begin(p, Thrown("returnAsset", input, LendingNotActive))
               /\ UNCHANGED lendings
        ELSE /\ Begin(p, [Call("returnAsset", input, "selectUser", "pending",
                               [lending |-> lendings[id]])
                            EXCEPT !.wrote = <<"lendings">>])
             /\ lendings' = [lendings EXCEPT ![id].status = "returned"]
  /\ UNCHANGED <<categories, assets, users, serial, now>>

\* The call and its first statement: the lending lookup and the two checks.
returnAsset(p, input) ==
  /\ LET id == input.lending_id
     IN Begin(p, IF id \notin DOMAIN lendings
                   THEN Thrown("returnAsset", input, LendingNotFound)
                 ELSE IF lendings[id].status # "active"
                   THEN Thrown("returnAsset", input, LendingNotActive)
                 ELSE Call("returnAsset", input, "selectUser", "pending",
                           [lending |-> lendings[id]]))
  /\ UNCHANGED <<tables, now>>

\* The user lookup; on success const returnDate = new Date().
returnAsset_selectUser(p) ==
  /\ At(p, "returnAsset", "selectUser")
  /\ IF calls[p].input.returned_by_user_id \notin DOMAIN users
       THEN Finish(p, UserNotFound)
       ELSE Goto(p, "updateLending",
                 [lending |-> calls[p].loc.lending, returnDate |-> now])
  /\ UNCHANGED <<tables, now>>

\* Mutant: the condition is ignored, every returned asset is available.
newAssetStatus_AlwaysAvailable(asset_condition) == "available"

\* Mutant: the two conditions are routed to each other's status.
newAssetStatus_Swapped(asset_condition) ==
  IF asset_condition = "damaged" THEN "maintenance"
  ELSE IF asset_condition = "needs_maintenance" THEN "damaged"
  ELSE "available"

\* let newAssetStatus = 'available'; if damaged ...; else if needs_maintenance ...
newAssetStatus(asset_condition) ==
  IF asset_condition = "damaged" THEN "damaged"
  ELSE IF asset_condition = "needs_maintenance" THEN "maintenance"
  ELSE "available"

\* Mutant: a lending returned after its expected_return_date is stored as
\* overdue.
returnAsset_updateLending_LateIsOverdue(p) ==
  /\ At(p, "returnAsset", "updateLending")
  /\ LET input == calls[p].input
         loc == calls[p].loc
         id == input.lending_id
     IN IF input.returned_by_user_id \notin DOMAIN users
        THEN /\ Finish(p, ForeignKeyViolation)
             /\ UNCHANGED lendings
        ELSE /\ lendings' = [lendings EXCEPT
                  ![id].actual_return_date = loc.returnDate,
                  ![id].status = IF loc.lending.expected_return_date < loc.returnDate
                                   THEN "overdue" ELSE "returned",
                  ![id].returned_by_user_id = input.returned_by_user_id,
                  ![id].notes = OrElse(input.return_notes, loc.lending.notes)]
             /\ Wrote(p, "lendings", "updateAsset", "pending")
  /\ UNCHANGED <<categories, assets, users, serial, now>>

\* Mutant: return_notes replaces the notes whenever it is not undefined.
returnAsset_updateLending_NotesIfDefined(p) ==
  /\ At(p, "returnAsset", "updateLending")
  /\ LET input == calls[p].input
         loc == calls[p].loc
         id == input.lending_id
     IN IF input.returned_by_user_id \notin DOMAIN users
        THEN /\ Finish(p, ForeignKeyViolation)
             /\ UNCHANGED lendings
        ELSE /\ lendings' = [lendings EXCEPT
                  ![id].actual_return_date = loc.returnDate,
                  ![id].status = "returned",
                  ![id].returned_by_user_id = input.returned_by_user_id,
                  ![id].notes = IF input.return_notes # Undefined
                                  THEN input.return_notes ELSE loc.lending.notes]
             /\ Wrote(p, "lendings", "updateAsset", "pending")
  /\ UNCHANGED <<categories, assets, users, serial, now>>

\* db.update(lendingsTable).set({...}).where(id = lending_id).returning()
returnAsset_updateLending(p) ==
  /\ At(p, "returnAsset", "updateLending")
  /\ LET input == calls[p].input
         loc == calls[p].loc
         id == input.lending_id
     IN IF input.returned_by_user_id \notin DOMAIN users
        THEN /\ Finish(p, ForeignKeyViolation)
             /\ UNCHANGED lendings
        ELSE /\ lendings' = [lendings EXCEPT
                  ![id].actual_return_date = loc.returnDate,
                  ![id].status = "returned",
                  ![id].returned_by_user_id = input.returned_by_user_id,
                  ![id].notes = OrElse(input.return_notes, loc.lending.notes)]
             /\ Wrote(p, "lendings", "updateAsset", "pending")
  /\ UNCHANGED <<categories, assets, users, serial, now>>

\* Mutant: without an asset_condition the asset's status is left as it is.
returnAsset_updateAsset_OnlyWithCondition(p) ==
  /\ At(p, "returnAsset", "updateAsset")
  /\ LET loc == calls[p].loc
         id == loc.lending.asset_id
     IN assets' = IF id \in DOMAIN assets /\ calls[p].input.asset_condition # Undefined
                    THEN [assets EXCEPT
                            ![id].status = newAssetStatus(calls[p].input.asset_condition)]
                    ELSE assets
  /\ Wrote(p, "assets", "done", OK)
  /\ UNCHANGED <<categories, lendings, users, serial, now>>

\* db.update(assetsTable).set({status: newAssetStatus, updated_at: returnDate})
\*   .where(id = lending[0].asset_id)
returnAsset_updateAsset(p) ==
  /\ At(p, "returnAsset", "updateAsset")
  /\ LET loc == calls[p].loc
         id == loc.lending.asset_id
     IN assets' = IF id \in DOMAIN assets
                    THEN [assets EXCEPT
                            ![id].status = newAssetStatus(calls[p].input.asset_condition)]
                    ELSE assets
  /\ Wrote(p, "assets", "done", OK)
  /\ UNCHANGED <<categories, lendings, users, serial, now>>

\* The call and its existence check; then updateData takes the fields of the
\* patch that are not undefined.
updateLending(p, id, updates) ==
  /\ LET input == [id |-> id, updates |-> updates]
     IN Begin(p, IF id \notin DOMAIN lendings
                   THEN Thrown("updateLending", input, LendingNotFound)
                 ELSE Call("updateLending", input, "updateLending", "pending", <<>>))
  /\ UNCHANGED <<tables, now>>

\* Mutant: the status of the patch is applied like the descriptive fields.
updateLending_updateLending_WithStatus(p) ==
  /\ At(p, "updateLending", "updateLending")
  /\ LET id == calls[p].input.id
         u == calls[p].input.updates
     IN lendings' = [lendings EXCEPT
          ![id].borrower_name =
             IF u.borrower_name # Undefined THEN u.borrower_name ELSE @,
          ![id].expected_return_date =
             IF u.expected_return_date # NoDate THEN u.expected_return_date ELSE @,
          ![id].notes = IF u.notes # Undefined THEN u.notes ELSE @,
          ![id].status = IF u.status # Undefined THEN u.status ELSE @]
  /\ Wrote(p, "lendings", "done", OK)
  /\ UNCHANGED <<categories, assets, users, serial, now>>

\* Mutant: the asset_id of the patch is applied like the descriptive fields.
updateLending_updateLending_WithAssetId(p) ==
  /\ At(p, "updateLending", "updateLending")
  /\ LET id == calls[p].input.id
         u == calls[p].input.updates
     IN lendings' = [lendings EXCEPT
          ![id].borrower_name =
             IF u.borrower_name # Undefined THEN u.borrower_name ELSE @,
          ![id].expected_return_date =
             IF u.expected_return_date # NoDate THEN u.expected_return_date ELSE @,
          ![id].notes = IF u.notes # Undefined THEN u.notes ELSE @,
          ![id].asset_id = IF u.asset_id # NoId THEN u.asset_id ELSE @]
  /\ Wrote(p, "lendings", "done", OK)
  /\ UNCHANGED <<categories, assets, users, serial, now>>

\* Mutant: the updates are applied as they come (set(updates)), the return
\* columns among them.
updateLending_updateLending_SetUpdates(p) ==
  /\ At(p, "updateLending", "updateLending")
  /\ LET id == calls[p].input.id
         u == calls[p].input.updates
         Given(f, none) == f \in DOMAIN u /\ u[f] # none
     IN lendings' = [lendings EXCEPT
          ![id].borrower_name =
             IF u.borrower_name # Undefined THEN u.borrower_name ELSE @,
          ![id].expected_return_date =
             IF u.expected_return_date # NoDate THEN u.expected_return_date ELSE @,
          ![id].notes = IF u.notes # Undefined THEN u.notes ELSE @,
          ![id].actual_return_date =
             IF Given("actual_return_date", NoDate) THEN u.actual_return_date ELSE @,
          ![id].returned_by_user_id =
             IF Given("returned_by_user_id", NoId) THEN u.returned_by_user_id ELSE @]
  /\ Wrote(p, "lendings", "done", OK)
  /\ UNCHANGED <<categories, assets, users, serial, now>>

\* db.update(lendingsTable).set(updateData).where(id).returning()
updateLending_updateLending(p) ==
  /\ At(p, "updateLending", "updateLending")
  /\ LET id == calls[p].input.id
         u == calls[p].input.updates
     IN lendings' = [lendings EXCEPT
          ![id].borrower_name =
             IF u.borrower_name # Undefined THEN u.borrower_name ELSE @,
          ![id].expected_return_date =
             IF u.expected_return_date # NoDate THEN u.expected_return_date ELSE @,
          ![id].notes = IF u.notes # Undefined THEN u.notes ELSE @]
  /\ Wrote(p, "lendings", "done", OK)
  /\ UNCHANGED <<categories, assets, users, serial, now>>

(* ============================= assets.ts =============================== *)
\* The call and its first statement: the category lookup.
createAsset(p, input) ==
  /\ serial.assets + Pending("createAsset") < MaxAssets
  /\ Begin(p, IF input.category_id \notin DOMAIN categories
                THEN Thrown("createAsset", input, CategoryDoesNotExist)
              ELSE Call("createAsset", input, "insertAsset", "pending", <<>>))
  /\ UNCHANGED <<tables, now>>

\* Mutant: category_id is a plain column, without references().
createAsset_insertAsset_NoForeignKey(p) ==
  /\ At(p, "createAsset", "insertAsset")
  /\ LET input == calls[p].input
         id == serial.assets + 1
     IN /\ assets' = assets @@ (id :>
             [category_id |-> input.category_id, status |-> input.status,
              purchase_price |-> priceColumn(input.purchase_price),
              current_value |-> priceColumn(input.current_value)])
        /\ serial' = [serial EXCEPT !.assets = id]
        /\ Wrote(p, "assets", "done", OK)
        /\ UNCHANGED <<categories, lendings, users>>
  /\ UNCHANGED now

\* db.insert(assetsTable).values({...}).returning(); category_id is a foreign
\* key and the two prices are numeric(10, 2) columns.
createAsset_insertAsset(p) ==
  /\ At(p, "createAsset", "insertAsset")
  /\ LET input == calls[p].input
         id == serial.assets + 1
     IN IF input.category_id \notin DOMAIN categories
        THEN /\ Finish(p, ForeignKeyViolation)
             /\ UNCHANGED tables
        ELSE IF \/ TruthyNumber(input.purchase_price)
                   /\ NumericOverflows(numberToString(input.purchase_price))
                \/ TruthyNumber(input.current_value)
                   /\ NumericOverflows(numberToString(input.current_value))
        THEN /\ Finish(p, NumericOverflow)
             /\ UNCHANGED tables
        ELSE /\ assets' = assets @@ (id :>
                  [category_id |-> input.category_id, status |-> input.status,
                   purchase_price |-> priceColumn(input.purchase_price),
                   current_value |-> priceColumn(input.current_value)])
             /\ serial' = [serial EXCEPT !.assets = id]
             /\ Wrote(p, "assets", "done", OK)
             /\ UNCHANGED <<categories, lendings, users>>
  /\ UNCHANGED now

\* getAssetById(id): the asset inner-joined with its category, its two
\* prices parsed to numbers, or null (the empty tuple) when no row comes back.
getAssetById(id) ==
  IF id \in DOMAIN assets /\ assets[id].category_id \in DOMAIN categories
    THEN <<[assets[id] EXCEPT !.purchase_price = priceOf(@),
                              !.current_value = priceOf(@)]>>
    ELSE <<>>

\* Mutant: the status of an asset that is lent cannot be overridden.
updateAsset_LentIsLocked(p, input) ==
  /\ Begin(p, IF input.id \notin DOMAIN assets
                THEN Thrown("updateAsset", input, AssetIdNotFound)
              ELSE IF input.status # Undefined /\ assets[input.id].status = "lent"
                THEN Thrown("updateAsset", input, AssetNotAvailable)
              ELSE Call("updateAsset", input,
                        IF input.category_id # NoId THEN "selectCategory"
                                                    ELSE "updateAsset",
                        "pending", <<>>))
  /\ UNCHANGED <<tables, now>>

\* The call and its first statement: the asset lookup.
updateAsset(p, input) ==
  /\ Begin(p, IF input.id \notin DOMAIN assets
                THEN Thrown("updateAsset", input, AssetIdNotFound)
              ELSE Call("updateAsset", input,
                        IF input.category_id # NoId THEN "selectCategory"
                                                    ELSE "updateAsset",
                        "pending", <<>>))
  /\ UNCHANGED <<tables, now>>

\* if (input.category_id !== undefined): the category lookup.
updateAsset_selectCategory(p) ==
  /\ At(p, "updateAsset", "selectCategory")
  /\ IF calls[p].input.category_id \notin DOMAIN categories
       THEN Finish(p, CategoryDoesNotExist)
       ELSE Goto(p, "updateAsset", <<>>)
  /\ UNCHANGED <<tables, now>>

\* db.update(assetsTable).set(updateValues).where(id).returning(); a row that
\* is gone leaves result[0] undefined, and reading asset.purchase_price throws.
updateAsset_updateAsset(p) ==
  /\ At(p, "updateAsset", "updateAsset")
  /\ LET input == calls[p].input
         id == input.id
     IN IF id \notin DOMAIN assets
        THEN /\ Finish(p, TypeErrorUndefined)
             /\ UNCHANGED assets
        ELSE IF input.category_id # NoId /\ input.category_id \notin DOMAIN categories
        THEN /\ Finish(p, ForeignKeyViolation)
             /\ UNCHANGED assets
        ELSE /\ assets' = [assets EXCEPT
                  ![id].category_id =
                     IF input.category_id # NoId THEN input.category_id ELSE @,
                  ![id].status =
                     IF input.status # Undefined THEN input.status ELSE @]
             /\ Wrote(p, "assets", "done", OK)
  /\ UNCHANGED <<categories, lendings, users, serial, now>>

\* The call and its first statement: the asset lookup.
deleteAsset(p, id) ==
  /\ Begin(p, IF id \notin DOMAIN assets
                THEN Thrown("deleteAsset", id, AssetIdNotFound)
              ELSE Call("deleteAsset", id, "selectLendings", "pending", <<>>))
  /\ UNCHANGED <<tables, now>>

\* Mutant: only the active lendings of the asset block its deletion.
deleteAsset_selectLendings_ActiveOnly(p) ==
  /\ At(p, "deleteAsset", "selectLendings")
  /\ LET id == calls[p].input
         lendingHistory == {l \in DOMAIN lendings :
                              lendings[l].asset_id = id /\ lendings[l].status = "active"}
     IN IF lendingHistory # {}
          THEN Finish(p, AssetHasLendingHistory)
          ELSE Goto(p, "deleteAsset", <<>>)
  /\ UNCHANGED <<tables, now>>

\* const lendingHistory = select from lendingsTable where asset_id = id
deleteAsset_selectLendings(p) ==
  /\ At(p, "deleteAsset", "selectLendings")
  /\ LET id == calls[p].input
         lendingHistory == {l \in DOMAIN lendings : lendings[l].asset_id = id}
     IN IF lendingHistory # {}
          THEN Finish(p, AssetHasLendingHistory)
          ELSE Goto(p, "deleteAsset", <<>>)
  /\ UNCHANGED <<tables, now>>

\* db.delete(assetsTable).where(id); lendings.asset_id references the row.
deleteAsset_deleteAsset(p) ==
  /\ At(p, "deleteAsset", "deleteAsset")
  /\ LET id == calls[p].input
     IN IF \E l \in DOMAIN lendings : lendings[l].asset_id = id
        THEN /\ Finish(p, ForeignKeyViolation)
             /\ UNCHANGED assets
        ELSE /\ assets' = Remove(assets, id)
             /\ Wrote(p, "assets", "done", OK)
  /\ UNCHANGED <<categories, lendings, users, serial, now>>

(* =========================== categories.ts ============================= *)
\* One statement: db.insert(categoriesTable).values({name, description || null})
createCategory(p, input) ==
  /\ serial.categories < MaxCategories
  /\ LET id == serial.categories + 1
     IN /\ categories' = categories @@ (id :>
             [name |-> input.name,
              description |-> OrElse(input.description, Null)])
        /\ serial' = [serial EXCEPT !.categories = id]
  /\ Begin(p, [Thrown("createCategory", input, OK) EXCEPT !.wrote = <<"categories">>])
  /\ UNCHANGED <<assets, lendings, users, now>>

\* getCategoryById(id): the rows selected by id; the handler returns
\* result[0] || null, so an empty result is null to its callers.
getCategoryById(id) ==
  IF id \in DOMAIN categories THEN <<categories[id]>> ELSE <<>>

\* The call and its first statement: existing = await getCategoryById(id);
\* with nothing to update the stored row is returned without a write.
updateCategory(p, input) ==
  /\ Begin(p, IF Len(getCategoryById(input.id)) = 0
                THEN Thrown("updateCategory", input, CategoryIdNotFound)
              ELSE IF input.name = Undefined /\ input.description = Undefined
                THEN Call("updateCategory", input, "done", OK,
                          [returned |-> getCategoryById(input.id)])
              ELSE Call("updateCategory", input, "updateCategory", "pending", <<>>))
  /\ UNCHANGED <<tables, now>>

\* Mutant: the description is applied only when it is truthy, so that an
\* explicit null leaves it as it was.
updateCategory_updateCategory_TruthyOnly(p) ==
  /\ At(p, "updateCategory", "updateCategory")
  /\ LET input == calls[p].input
         id == input.id
     IN /\ categories' =
             IF id \in DOMAIN categories
               THEN [categories EXCEPT
                      ![id].name = IF input.name # Undefined THEN input.name ELSE @,
                      ![id].description = OrElse(input.description, @)]
               ELSE categories
        /\ calls' = [calls EXCEPT ![p].pc = "done", ![p].res = OK,
                       ![p].wrote = Append(@, "categories"),
                       ![p].loc = [returned |-> IF id \in DOMAIN categories
                                                  THEN <<categories'[id]>> ELSE <<>>]]
  /\ UNCHANGED <<assets, lendings, users, serial, now>>

\* db.update(categoriesTable).set(updateData).where(id).returning()
updateCategory_updateCategory(p) ==
  /\ At(p, "updateCategory", "updateCategory")
  /\ LET input == calls[p].input
         id == input.id
     IN /\ categories' =
             IF id \in DOMAIN categories
               THEN [categories EXCEPT
                      ![id].name = IF input.name # Undefined THEN input.name ELSE @,
                      ![id].description =
                         IF input.description # Undefined THEN input.description ELSE @]
               ELSE categories
        /\ calls' = [calls EXCEPT ![p].pc = "done", ![p].res = OK,
                       ![p].wrote = Append(@, "categories"),
                       ![p].loc = [returned |-> IF id \in DOMAIN categories
                                                  THEN <<categories'[id]>> ELSE <<>>]]
  /\ UNCHANGED <<assets, lendings, users, serial, now>>

\* The call and its first statement: existing = await getCategoryById(id)
deleteCategory(p, id) ==
  /\ Begin(p, IF Len(getCategoryById(id)) = 0
                THEN Thrown("deleteCategory", id, CategoryIdNotFound)
              ELSE Call("deleteCategory", id, "selectAssets", "pending", <<>>))
  /\ UNCHANGED <<tables, now>>

\* Mutant: a single associated asset does not block the deletion.
deleteCategory_selectAssets_MoreThanOne(p) ==
  /\ At(p, "deleteCategory", "selectAssets")
  /\ LET id == calls[p].input
         assetsWithCategory == {a \in DOMAIN assets : assets[a].category_id = id}
     IN IF Cardinality(assetsWithCategory) > 1
          THEN calls' = [calls EXCEPT ![p].pc = "done", ![p].res = CategoryHasAssets,
                           ![p].loc = [count |-> Cardinality(assetsWithCategory)]]
          ELSE Goto(p, "deleteCategory", <<>>)
  /\ UNCHANGED <<tables, now>>

\* const assetsWithCategory = select from assetsTable where category_id = id;
\* the error message carries assetsWithCategory.length.
deleteCategory_selectAssets(p) ==
  /\ At(p, "deleteCategory", "selectAssets")
  /\ LET id == calls[p].input
         assetsWithCategory == {a \in DOMAIN assets : assets[a].category_id = id}
     IN IF Cardinality(assetsWithCategory) > 0
          THEN calls' = [calls EXCEPT ![p].pc = "done", ![p].res = CategoryHasAssets,
                           ![p].loc = [count |-> Cardinality(assetsWithCategory)]]
          ELSE Goto(p, "deleteCategory", <<>>)
  /\ UNCHANGED <<tables, now>>

\* db.delete(categoriesTable).where(id); assets.category_id references the row.
deleteCategory_deleteCategory(p) ==
  /\ At(p, "deleteCategory", "deleteCategory")
  /\ LET id == calls[p].input
     IN IF \E a \in DOMAIN assets : assets[a].category_id = id
        THEN /\ Finish(p, ForeignKeyViolation)
             /\ UNCHANGED categories
        ELSE /\ categories' = Remove(categories, id)
             /\ Wrote(p, "categories", "done", OK)
  /\ UNCHANGED <<assets, lendings, users, serial, now>>

(* ============================= reports.ts ============================== *)
\* The clock counts half days: (1000 * 60 * 60 * 24) ms are TicksPerDay ticks.
TicksPerDay == 2

\* The assets of a set with a given status.
WithStatus(as, status) == Cardinality({a \in as : assets[a].status = status})

\* The sum of a price column over a set of assets: null prices add nothing.
RECURSIVE SumOf(_, _)
SumOf(as, column) ==
  IF as = {} THEN Number(0, 0)
  ELSE LET a == CHOOSE x \in as : TRUE
           rest == SumOf(as \ {a}, column)
           price == priceOf(assets[a][column])
       IN IF IsNumber(price)
            THEN Number(rest.whole + price.whole + (rest.cents + price.cents) \div 100,
                        (rest.cents + price.cents) % 100)
            ELSE rest

\* gte(column, start_date) and lte(column, end_date), each only if given.
InRange(date, start_date, end_date) ==
  /\ start_date # NoDate => date >= start_date
  /\ end_date # NoDate => date <= end_date

\* Mutant: the rows are built from the categories, so that a category none
\* of whose assets passes the filters has a row of zeros.
generateInventoryReport_EveryCategory(input) ==
  LET results == {a \in DOMAIN assets :
                    /\ assets[a].category_id \in DOMAIN categories
                    /\ input.category_id # NoId
                       => assets[a].category_id = input.category_id
                    /\ Truthy(input.status) => assets[a].status = input.status}
      of(c) == {a \in results : assets[a].category_id = c}
  IN [report_type |-> "inventory", generated_at |-> now,
      data |-> {[category_id |-> c,
                 total_assets |-> Cardinality(of(c)),
                 available |-> WithStatus(of(c), "available"),
                 lent |-> WithStatus(of(c), "lent"),
                 maintenance |-> WithStatus(of(c), "maintenance"),
                 damaged |-> WithStatus(of(c), "damaged"),
                 retired |-> WithStatus(of(c), "retired"),
                 total_purchase_value |-> SumOf(of(c), "purchase_price"),
                 total_current_value |-> SumOf(of(c), "current_value")]
                : c \in DOMAIN categories}]

\* generateInventoryReport: the assets inner-joined with their category and
\* filtered by category_id (if not undefined) and status (if truthy), grouped
\* by category into one row with the counts per status and the value sums.
generateInventoryReport(input) ==
  LET results == {a \in DOMAIN assets :
                    /\ assets[a].category_id \in DOMAIN categories
                    /\ input.category_id # NoId
                       => assets[a].category_id = input.category_id
                    /\ Truthy(input.status) => assets[a].status = input.status}
      of(c) == {a \in results : assets[a].category_id = c}
  IN [report_type |-> "inventory", generated_at |-> now,
      data |-> {[category_id |-> c,
                 total_assets |-> Cardinality(of(c)),
                 available |-> WithStatus(of(c), "available"),
                 lent |-> WithStatus(of(c), "lent"),
                 maintenance |-> WithStatus(of(c), "maintenance"),
                 damaged |-> WithStatus(of(c), "damaged"),
                 retired |-> WithStatus(of(c), "retired"),
                 total_purchase_value |-> SumOf(of(c), "purchase_price"),
                 total_current_value |-> SumOf(of(c), "current_value")]
                : c \in {assets[a].category_id : a \in results}}]

\* The lendings inner-joined with their asset, its category and the lending
\* user (the from clause of the lending, returns and overdue reports).
JoinedLendings ==
  {l \in DOMAIN lendings :
     /\ lendings[l].asset_id \in DOMAIN assets
     /\ assets[lendings[l].asset_id].category_id \in DOMAIN categories
     /\ lendings[l].lent_by_user_id \in DOMAIN users}

\* generateLendingReport: the joined lendings with lent_date in the range.
generateLendingReport(input) ==
  [report_type |-> "lending", generated_at |-> now,
   data |-> {[lending_id |-> l,
              lent_date |-> lendings[l].lent_date,
              status |-> lendings[l].status,
              lent_by |-> users[lendings[l].lent_by_user_id].username]
             : l \in {j \in JoinedLendings :
                        InRange(lendings[j].lent_date, input.start_date, input.end_date)}}]

\* Mutant: the range is applied to lent_date, as in the lending report.
generateReturnsReport_ByLentDate(input) ==
  [report_type |-> "returns", generated_at |-> now,
   data |-> {[lending_id |-> l,
              actual_return_date |-> lendings[l].actual_return_date,
              returned_by |->
                 IF lendings[l].returned_by_user_id \in DOMAIN users
                   THEN OrElse(users[lendings[l].returned_by_user_id].username, "Unknown")
                   ELSE "Unknown"]
             : l \in {j \in JoinedLendings :
                        /\ lendings[j].actual_return_date # NoDate
                        /\ InRange(lendings[j].lent_date,
                                   input.start_date, input.end_date)}}]

\* generateReturnsReport: the joined lendings, left-joined with the returning
\* user, with actual_return_date not null and in the range.
generateReturnsReport(input) ==
  [report_type |-> "returns", generated_at |-> now,
   data |-> {[lending_id |-> l,
              actual_return_date |-> lendings[l].actual_return_date,
              returned_by |->
                 IF lendings[l].returned_by_user_id \in DOMAIN users
                   THEN OrElse(users[lendings[l].returned_by_user_id].username, "Unknown")
                   ELSE "Unknown"]
             : l \in {j \in JoinedLendings :
                        /\ lendings[j].actual_return_date # NoDate
                        /\ InRange(lendings[j].actual_return_date,
                                   input.start_date, input.end_date)}}]

\* Mutant: the days are rounded up.
daysDiff_Ceil(today, expected_return_date) ==
  (today - expected_return_date + TicksPerDay - 1) \div TicksPerDay

\* Math.floor((today.getTime() - expected_return_date.getTime()) / one day)
daysDiff(today, expected_return_date) ==
  (today - expected_return_date) \div TicksPerDay

\* generateOverdueReport: today = new Date(); the joined lendings with status
\* active and expected_return_date < today, each with its days_overdue.
generateOverdueReport ==
  LET today == now
  IN [report_type |-> "overdue", generated_at |-> now,
      data |-> {[lending_id |-> l,
                 expected_return_date |-> lendings[l].expected_return_date,
                 days_overdue |-> daysDiff(today, lendings[l].expected_return_date)]
                : l \in {j \in JoinedLendings :
                           /\ lendings[j].status = "active"
                           /\ lendings[j].expected_return_date < today}}]

\* The name column of an asset (the model keeps no other text of it).
assetName(a) == "asset " \o ToString(a)

\* Mutant: the rate is truncated to two decimals.
utilizationRate_Floor(activeLendings, totalAssets) ==
  IF totalAssets > 0 THEN (100 * activeLendings) \div totalAssets ELSE 0

\* utilizationRate = totalAssets > 0 ? activeLendings / totalAssets : 0, then
\* Math.round(utilizationRate * 100) / 100: the rate in hundredths, a half
\* rounded up.  (The quotients of the counts drawn here that end in a half
\* hundredth are eighths, which the floating-point product represents
\* exactly.)
utilizationRate(activeLendings, totalAssets) ==
  IF totalAssets > 0
    THEN (200 * activeLendings + totalAssets) \div (2 * totalAssets)
    ELSE 0

\* Mutant: the categories are inner-joined with their assets.
categoryStats_InnerJoin ==
  [c \in {assets[a].category_id : a \in DOMAIN assets} \cap DOMAIN categories |->
     LET of == {a \in DOMAIN assets : assets[a].category_id = c}
     IN [total_assets |-> Cardinality(of),
         total_current_value |->
            IF \E a \in of : IsNumber(priceOf(assets[a].current_value))
              THEN SumOf(of, "current_value") ELSE NullNumber]]

\* generateCategorySummaryReport, first statement: the categories left-joined
\* with their assets and grouped: count(assets.id), sum(assets.current_value)
\* (null when no asset of the category has a value).
categoryStats ==
  [c \in DOMAIN categories |->
     LET of == {a \in DOMAIN assets : assets[a].category_id = c}
     IN [total_assets |-> Cardinality(of),
         total_current_value |->
            IF \E a \in of : IsNumber(priceOf(assets[a].current_value))
              THEN SumOf(of, "current_value") ELSE NullNumber]]

\* Mutant: the status filter of the active count is missing.
lendingStats_EveryLendingActive ==
  [c \in DOMAIN categories |->
     LET of == {l \in DOMAIN lendings :
                  /\ lendings[l].asset_id \in DOMAIN assets
                  /\ assets[lendings[l].asset_id].category_id = c}
     IN [total_lendings |-> Cardinality(of),
         active_lendings |-> Cardinality(of)]]

\* Second statement: the categories left-joined with assets and lendings.
lendingStats ==
  [c \in DOMAIN categories |->
     LET of == {l \in DOMAIN lendings :
                  /\ lendings[l].asset_id \in DOMAIN assets
                  /\ assets[lendings[l].asset_id].category_id = c}
     IN [total_lendings |-> Cardinality(of),
         active_lendings |->
            Cardinality({l \in of : lendings[l].status = "active"})]]

\* Mutant: only the active lendings of an asset are counted.
assetPopularity_ActiveOnly ==
  [a \in DOMAIN assets |->
     [category_id |-> assets[a].category_id,
      lending_count |->
         Cardinality({l \in DOMAIN lendings :
                        lendings[l].asset_id = a /\ lendings[l].status = "active"})]]

\* Third statement: the assets left-joined with their lendings and grouped.
assetPopularity ==
  [a \in DOMAIN assets |->
     [category_id |-> assets[a].category_id,
      lending_count |->
         Cardinality({l \in DOMAIN lendings : lendings[l].asset_id = a})]]

\* The rows of the report from the three results.  The store returns the
\* rows of assetPopularity in an order of its choice (rank); the stable sort
\* by descending lending_count keeps that order among equal counts.
categorySummaryRows(stats, lending, popularity, rank) ==
  {LET categoryAssets == {a \in DOMAIN popularity : popularity[a].category_id = c}
       Before(a, b) ==
         \/ popularity[a].lending_count > popularity[b].lending_count
         \/ /\ popularity[a].lending_count = popularity[b].lending_count
            /\ rank[a] <= rank[b]
       mostLent == {a \in categoryAssets : \A b \in categoryAssets : Before(a, b)}
       leastLent == {a \in categoryAssets : \A b \in categoryAssets : Before(b, a)}
       totalAssets == stats[c].total_assets
       activeLendings == IF c \in DOMAIN lending THEN lending[c].active_lendings ELSE 0
   IN [category_id |-> c,
       total_assets |-> totalAssets,
       total_value |-> IF IsNumber(stats[c].total_current_value)
                         THEN stats[c].total_current_value ELSE Number(0, 0),
       total_lendings |-> IF c \in DOMAIN lending THEN lending[c].total_lendings ELSE 0,
       active_lendings |-> activeLendings,
       utilization_rate |-> utilizationRate(activeLendings, totalAssets),
       most_lent_asset |-> IF mostLent = {} THEN "N/A"
                           ELSE assetName(CHOOSE a \in mostLent : TRUE),
       most_lent_count |-> IF mostLent = {} THEN 0
                           ELSE popularity[CHOOSE a \in mostLent : TRUE].lending_count,
       least_lent_asset |-> IF leastLent = {} THEN "N/A"
                            ELSE assetName(CHOOSE a \in leastLent : TRUE),
       least_lent_count |-> IF leastLent = {} THEN 0
                            ELSE popularity[CHOOSE a \in leastLent : TRUE].lending_count]
   : c \in DOMAIN stats}

\* generateReport(input): the switch on report_type and the first (for four
\* of the reports the only) statement of the generator it calls.  A status
\* filter that is no value of the asset_status enum is rejected by the store.
generateReport(p, input) ==
  /\ Begin(p,
       IF input.report_type = "inventory"
         THEN IF Truthy(input.status) /\ input.status \notin assetStatusEnum
                THEN Thrown("generateReport", input, InvalidEnumValue)
                ELSE Call("generateReport", input, "done", OK,
                          generateInventoryReport(input))
       ELSE IF input.report_type = "lending"
         THEN Call("generateReport", input, "done", OK, generateLendingReport(input))
       ELSE IF input.report_type = "returns"
         THEN Call("generateReport", input, "done", OK, generateReturnsReport(input))
       ELSE IF input.report_type = "overdue"
         THEN Call("generateReport", input, "done", OK, generateOverdueReport)
       ELSE IF input.report_type = "category_summary"
         THEN Call("generateReport", input, "selectLendingStats", "pending",
                   [categoryStats |-> categoryStats])
       ELSE Thrown("generateReport", input, UnsupportedReportType))
  /\ UNCHANGED <<tables, now>>

generateCategorySummaryReport_selectLendingStats(p) ==
  /\ At(p, "generateReport", "selectLendingStats")
  /\ Goto(p, "selectAssetPopularity",
          [categoryStats |-> calls[p].loc.categoryStats,
           lendingStats |-> lendingStats])
  /\ UNCHANGED <<tables, now>>

generateCategorySummaryReport_selectAssetPopularity(p) ==
  /\ At(p, "generateReport", "selectAssetPopularity")
  /\ \E rank \in [DOMAIN assets -> 1..Cardinality(DOMAIN assets)] :
       /\ \A a, b \in DOMAIN assets : rank[a] = rank[b] => a = b
       /\ calls' = [calls EXCEPT
            ![p].pc = "done", ![p].res = OK,
            ![p].loc = [report_type |-> "category_summary", generated_at |-> now,
                        data |-> categorySummaryRows(calls[p].loc.categoryStats,
                                                     calls[p].loc.lendingStats,
                                                     assetPopularity, rank)]]
  /\ UNCHANGED <<tables, now>>

\* The rate of one row of the category summary, computed on its own for a
\* category with totalAssets assets and activeLendings active lendings (more
\* assets than the stores of the model hold).
categorySummaryRow_utilizationRate(p) ==
  /\ \E activeLendings, totalAssets \in 0..MaxCount :
       Begin(p, Call("utilizationRate",
                     [activeLendings |-> activeLendings, totalAssets |-> totalAssets],
                     "done", OK,
                     [utilization_rate |-> utilizationRate(activeLendings, totalAssets)]))
  /\ UNCHANGED <<tables, now>>

(* ============================ dashboard.ts ============================= *)
\* Mutant: total is counted inside the switch, for the three statuses it names.
assetCounts_NamedStatuses ==
  [status \in {"available", "lent", "maintenance"} |->
     WithStatus(DOMAIN assets, status)]

\* select count(), status from assets group by status: the count of every
\* status that has a row.
assetCounts ==
  [status \in {assets[a].status : a \in DOMAIN assets} |->
     WithStatus(DOMAIN assets, status)]

\* totalAssets += total, over the groups.
RECURSIVE totalOf(_)
totalOf(counts) ==
  IF DOMAIN counts = {} THEN 0
  ELSE LET status == CHOOSE x \in DOMAIN counts : TRUE
       IN counts[status] + totalOf([x \in DOMAIN counts \ {status} |-> counts[x]])

\* The count of one status of the switch (0 when the status has no group).
countOf(counts, status) == IF status \in DOMAIN counts THEN counts[status] ELSE 0

\* getDashboardSummary(): the call and its first statement, the asset counts.
getDashboardSummary(p) ==
  /\ Begin(p, Call("getDashboardSummary", <<>>, "selectCategoriesCount", "pending",
                   [assetCounts |-> assetCounts]))
  /\ UNCHANGED <<tables, now>>

getDashboardSummary_selectCategoriesCount(p) ==
  /\ At(p, "getDashboardSummary", "selectCategoriesCount")
  /\ Goto(p, "selectOverdueLendings",
          calls[p].loc @@ [categoriesCount |-> Cardinality(DOMAIN categories)])
  /\ UNCHANGED <<tables, now>>

\* now = new Date(); count of the lendings with status active and
\* expected_return_date < now (no join).
getDashboardSummary_selectOverdueLendings(p) ==
  /\ At(p, "getDashboardSummary", "selectOverdueLendings")
  /\ Goto(p, "selectRecentLendings",
          calls[p].loc @@
            [now |-> now,
             overdueLendings |->
               Cardinality({l \in DOMAIN lendings :
                              /\ lendings[l].status = "active"
                              /\ lendings[l].expected_return_date < now})])
  /\ UNCHANGED <<tables, now>>

\* The active lendings, newest first, at most five (more than the model holds).
getDashboardSummary_selectRecentLendings(p) ==
  /\ At(p, "getDashboardSummary", "selectRecentLendings")
  /\ Goto(p, "selectRecentReturns",
          calls[p].loc @@
            [recentLendings |->
               {l \in DOMAIN lendings : lendings[l].status = "active"}])
  /\ UNCHANGED <<tables, now>>

\* The returned lendings, last returned first, at most five; then the summary.
getDashboardSummary_selectRecentReturns(p) ==
  /\ At(p, "getDashboardSummary", "selectRecentReturns")
  /\ LET loc == calls[p].loc
     IN calls' = [calls EXCEPT
          ![p].pc = "done", ![p].res = OK,
          ![p].loc = [total_assets |-> totalOf(loc.assetCounts),
                      available_assets |-> countOf(loc.assetCounts, "available"),
                      lent_assets |-> countOf(loc.assetCounts, "lent"),
                      overdue_lendings |-> loc.overdueLendings,
                      assets_in_maintenance |-> countOf(loc.assetCounts, "maintenance"),
                      total_categories |-> loc.categoriesCount,
                      recent_lendings |-> loc.recentLendings,
                      recent_returns |->
                        {l \in DOMAIN lendings : lendings[l].status = "returned"},
                      now |-> loc.now]]
  /\ UNCHANGED <<tables, now>>

(* =============================== auth.ts =============================== *)
\* The call and its first statement: the lookup by username.
createUser(p, input) ==
  /\ serial.users + Pending("createUser") < MaxUsers
  /\ Begin(p, IF \E u \in DOMAIN users : users[u].username = input.username
                THEN Thrown("createUser", input, UsernameExists)
              ELSE Call("createUser", input, "selectEmail", "pending", <<>>))
  /\ UNCHANGED <<tables, now>>

\* Mutant: the lookup by email is missing.
createUser_selectEmail_NoCheck(p) ==
  /\ At(p, "createUser", "selectEmail")
  /\ Goto(p, "insertUser", <<>>)
  /\ UNCHANGED <<tables, now>>

\* The lookup by email; the password hash that follows touches no table.
createUser_selectEmail(p) ==
  /\ At(p, "createUser", "selectEmail")
  /\ IF \E u \in DOMAIN users : users[u].email = calls[p].input.email
       THEN Finish(p, EmailExists)
       ELSE Goto(p, "insertUser", <<>>)
  /\ UNCHANGED <<tables, now>>

\* db.insert(usersTable).values({...}); username and email are unique columns.
createUser_insertUser(p) ==
  /\ At(p, "createUser", "insertUser")
  /\ LET input == calls[p].input
         id == serial.users + 1
     IN IF \E u \in DOMAIN users : \/ users[u].username = input.username
                                   \/ users[u].email = input.email
        THEN /\ Finish(p, UniqueViolation)
             /\ UNCHANGED tables
        ELSE /\ users' = users @@ (id :>
                  [username |-> input.username, email |-> input.email])
             /\ serial' = [serial EXCEPT !.users = id]
             /\ Wrote(p, "users", "done", OK)
             /\ UNCHANGED <<categories, assets, lendings>>
  /\ UNCHANGED now

(* ============================ the requests ============================= *)
\* The result reaches the caller and the request is over.
Return(p) ==
  /\ calls[p].pc = "done"
  /\ calls' = [calls EXCEPT ![p] = Idle]
  /\ UNCHANGED <<tables, now>>

\* Time passes.  (Only the specification of the lendings' columns, where
\* dates are compared, lets the clock move.)
Tick ==
  /\ now < MaxTime
  /\ now' = now + 1
  /\ UNCHANGED <<tables, calls>>

\* The inputs of the requests.  Ids range over rows that exist, never existed
\* or were deleted; an omitted optional field is Undefined (NoId, NoDate).
\* Lifecycle draws every input that decides a branch of the asset and lending
\* lifecycle, with one value for the columns that are only copied.
OmitOr(S) == {Undefined} \cup S
UpdateLendingPatch(name, date, notes, status) ==
  [borrower_name |-> name, expected_return_date |-> date, notes |-> notes,
   status |-> status]

Lifecycle ==
  [createCategory |-> [name : {"c1"}, description : {Undefined}],
   updateCategory |-> [id : CategoryIds, name : OmitOr({"c1"}),
                       description : {Undefined}],
   deleteCategory |-> CategoryIds,
   createAsset |-> [category_id : AnyCategoryIds, status : assetStatusEnum,
                    purchase_price : {UndefinedNumber},
                    current_value : {UndefinedNumber}],
   updateAsset |-> [id : AssetIds, category_id : {NoId},
                    status : OmitOr(assetStatusEnum)]
                   \cup [id : AssetIds, category_id : AnyCategoryIds,
                         status : {Undefined}],
   deleteAsset |-> AssetIds,
   createLending |-> [asset_id : AssetIds, borrower_name : {"b1"},
                      expected_return_date : {MaxTime}, notes : {Undefined},
                      lent_by_user_id : AnyUserIds],
   returnAsset |-> [lending_id : LendingIds, returned_by_user_id : AnyUserIds,
                    return_notes : OmitOr({"r1"}),
                    asset_condition : OmitOr(assetConditionEnum)],
   updateLending |-> [id : LendingIds,
                      updates : {UpdateLendingPatch(Undefined, NoDate, Undefined, Undefined),
                                 UpdateLendingPatch("b1", NoDate, Undefined, "active")}],
   createUser |-> [username : {"u1"}, email : {"e1"}]]

\* A request arrives: one of the handlers is called with an input of I.
Request(p, I) ==
  \/ \E input \in I.createCategory : createCategory(p, input)
  \/ \E input \in I.updateCategory : updateCategory(p, input)
  \/ \E id \in I.deleteCategory : deleteCategory(p, id)
  \/ \E input \in I.createAsset : createAsset(p, input)
  \/ \E id \in I.deleteAsset : deleteAsset(p, id)
  \/ \E input \in I.createLending : createLending(p, input)
  \/ \E input \in I.returnAsset : returnAsset(p, input)
  \/ \E input \in I.updateLending : updateLending(p, input.id, input.updates)
  \/ \E input \in I.createUser : createUser(p, input)

\* The administrative override of an asset's columns.
UpdateAssetRequest(p, I) == \E input \in I.updateAsset : updateAsset(p, input)

\* The next store statement of a call in flight.
Statement(p) ==
  \/ updateCategory_updateCategory(p)
  \/ deleteCategory_selectAssets(p)
  \/ deleteCategory_deleteCategory(p)
  \/ createAsset_insertAsset(p)
  \/ deleteAsset_selectLendings(p)
  \/ deleteAsset_deleteAsset(p)
  \/ createLending_selectUser(p)
  \/ createLending_insertLending(p)
  \/ createLending_updateAsset(p)
  \/ returnAsset_selectUser(p)
  \/ returnAsset_updateLending(p)
  \/ returnAsset_updateAsset(p)
  \/ updateLending_updateLending(p)
  \/ createUser_selectEmail(p)
  \/ createUser_insertUser(p)

UpdateAssetStatement(p) ==
  \/ updateAsset_selectCategory(p)
  \/ updateAsset_updateAsset(p)

\* Requests are served one at a time: a call starts when no other is open.
First == CHOOSE p \in Procs : \A q \in Procs : p <= q

Next ==
  \/ Request(First, Lifecycle)
  \/ UpdateAssetRequest(First, Lifecycle)
  \/ Statement(First)
  \/ UpdateAssetStatement(First)
  \/ Return(First)

Spec == Init /\ [][Next]_vars

\* The same, without the administrative updateAsset.
NextNoUpdateAsset ==
  \/ Request(First, Lifecycle)
  \/ Statement(First)
  \/ Return(First)

SpecNoUpdateAsset == Init /\ [][NextNoUpdateAsset]_vars

\* Requests are served concurrently: the statements of the open calls
\* interleave in any order.  The store is set up by calls served alone;
\* createLending and returnAsset calls arrive at any time, also while another
\* call is open.  (A result is delivered before the next request is drawn:
\* delivery touches no table, so no interleaving of statements is lost.)
Concurrent ==
  [Lifecycle EXCEPT
     !.createAsset = [category_id : CategoryIds, status : {"available"},
                      purchase_price : {UndefinedNumber},
                      current_value : {UndefinedNumber}],
     !.returnAsset = [lending_id : LendingIds, returned_by_user_id : UserIds,
                      return_notes : {Undefined},
                      asset_condition : {"good", "damaged"}],
     !.updateLending = [id : LendingIds,
                        updates : {UpdateLendingPatch(Undefined, NoDate, Undefined, Undefined)}]]

Alone(p) == \A q \in Procs \ {p} : calls[q] = Idle
Delivered == \A q \in Procs : calls[q].pc # "done"

LendingRequest(p, I) ==
  \/ \E input \in I.createLending : createLending(p, input)
  \/ \E input \in I.returnAsset : returnAsset(p, input)

NextConc ==
  \/ \E p \in Procs : Alone(p) /\ Request(p, Concurrent)
  \/ \E p \in Procs : Delivered /\ LendingRequest(p, Concurrent)
  \/ \E p \in Procs : Statement(p)
  \/ \E p \in Procs : Return(p)

SpecConc == Init /\ [][NextConc]_vars

\* The columns of the lendings: LendingDetail draws every input that decides
\* what a lending's descriptive columns hold (omitted, null, empty and
\* non-empty notes; patches that carry the columns updateLending does not
\* copy), with one value for the asset statuses and conditions, and lets
\* time pass between the requests.
UpdateLendingPatchAll(name, date, notes, status, asset, returned, lent_by, returned_by) ==
  UpdateLendingPatch(name, date, notes, status) @@
  [asset_id |-> asset, actual_return_date |-> returned,
   lent_by_user_id |-> lent_by, returned_by_user_id |-> returned_by]

LendingDetail ==
  [Lifecycle EXCEPT
     !.createAsset = [category_id : CategoryIds, status : {"available"},
                      purchase_price : {UndefinedNumber},
                      current_value : {UndefinedNumber}],
     !.createLending = [asset_id : AssetIds, borrower_name : {"b1"},
                        expected_return_date : Times, notes : {Undefined, "", "n1"},
                        lent_by_user_id : UserIds],
     !.returnAsset = [lending_id : LendingIds, returned_by_user_id : UserIds,
                      return_notes : {Undefined, Null, "", "r1"},
                      asset_condition : {Undefined}],
     !.updateLending =
        [id : LendingIds,
         updates : {UpdateLendingPatchAll(Undefined, NoDate, Undefined, Undefined,
                                          NoId, NoDate, NoId, NoId),
                    UpdateLendingPatchAll("b2", NoDate, Undefined, Undefined,
                                          NoId, NoDate, NoId, NoId),
                    UpdateLendingPatchAll(Undefined, 1, Null, Undefined,
                                          NoId, NoDate, NoId, NoId),
                    UpdateLendingPatchAll("b2", MaxTime, "n2", "overdue",
                                          MaxAssets, MaxTime, MaxUsers + 1, MaxUsers)}]]

NextLendingDetail ==
  \/ Request(First, LendingDetail)
  \/ Statement(First)
  \/ Return(First)
  \/ Tick

SpecLendingDetail == Init /\ [][NextLendingDetail]_vars

\* The columns of the categories: CategoryDetail draws every input that
\* decides what a category's name and description hold (a description that is
\* omitted, null, empty or not), with the lifecycle inputs of Concurrent.
CategoryDetail ==
  [Concurrent EXCEPT
     !.createCategory = [name : {"c1"}, description : {Undefined, "", "d1"}],
     !.updateCategory = [id : CategoryIds, name : OmitOr({"c2"}),
                         description : {Undefined, Null, "d2"}]]

NextCategoryDetail ==
  \/ Request(First, CategoryDetail)
  \/ Statement(First)
  \/ Return(First)

SpecCategoryDetail == Init /\ [][NextCategoryDetail]_vars

\* The prices of an asset: AssetDetail draws createAsset with a price that
\* is omitted, null, one cent, 1500.50 (a trailing zero), the largest value
\* of the column and the first value beyond it.
Prices ==
  {UndefinedNumber, NullNumber, Number(0, 1), Number(1500, 50),
   Number(NumericIntegerLimit - 1, 99), Number(NumericIntegerLimit, 0)}

AssetDetail ==
  [Concurrent EXCEPT
     !.createAsset =
        [category_id : CategoryIds, status : {"available"},
         purchase_price : Prices, current_value : {UndefinedNumber, Number(0, 1)}]
        \cup [category_id : CategoryIds, status : {"available"},
              purchase_price : {UndefinedNumber}, current_value : Prices]]

NextAssetDetail ==
  \/ Request(First, AssetDetail)
  \/ Statement(First)
  \/ Return(First)

SpecAssetDetail == Init /\ [][NextAssetDetail]_vars

\* The reports: Reporting draws the filters of the five reports (an
\* inventory status that is empty or no status at all among them) and a
\* report type outside the enum, over stores built by the lifecycle inputs
\* of Concurrent with assets created available or in maintenance and
\* lendings due before the first instant or at the last.
ReportInput(report_type, start_date, end_date, category_id, status) ==
  [report_type |-> report_type, start_date |-> start_date, end_date |-> end_date,
   category_id |-> category_id, status |-> status]

Reporting ==
  [generateReport |->
     {ReportInput("inventory", NoDate, NoDate, c, st) :
        c \in {NoId} \cup AnyCategoryIds, st \in {Undefined, "available"}}
     \cup {ReportInput("inventory", NoDate, NoDate, NoId, st) :
             st \in {"", "lent", "retired", "broken"}}
     \cup {ReportInput(t, d[1], d[2], NoId, Undefined) :
             t \in {"lending", "returns"},
             d \in {<<NoDate, NoDate>>, <<1, 1>>, <<MaxTime, NoDate>>, <<NoDate, 1>>}}
     \cup {ReportInput(t, NoDate, NoDate, NoId, Undefined) :
             t \in {"overdue", "category_summary", "summary"}}]
  @@ [Concurrent EXCEPT
        !.createAsset = [category_id : CategoryIds,
                         status : {"available", "maintenance"},
                         purchase_price : {UndefinedNumber},
                         current_value : {UndefinedNumber, Number(1500, 50)}],
        !.createLending = [asset_id : AssetIds, borrower_name : {"b1"},
                           expected_return_date : {-1, MaxTime},
                           notes : {Undefined}, lent_by_user_id : UserIds],
        !.returnAsset = [lending_id : LendingIds, returned_by_user_id : UserIds,
                         return_notes : {Undefined},
                         asset_condition : {"good", "damaged"}]]

ReportRequest(p, I) == \E input \in I.generateReport : generateReport(p, input)

ReportStatement(p) ==
  \/ generateCategorySummaryReport_selectLendingStats(p)
  \/ generateCategorySummaryReport_selectAssetPopularity(p)

NextReports ==
  \/ Request(First, Reporting)
  \/ ReportRequest(First, Reporting)
  \/ Statement(First)
  \/ ReportStatement(First)
  \/ Return(First)
  \/ Tick

SpecReports == Init /\ [][NextReports]_vars

\* Lending, return and lending again: Relending draws the lifecycle inputs
\* with every asset created available, in a category that exists.
Relending ==
  [Lifecycle EXCEPT
     !.createAsset = [category_id : CategoryIds, status : {"available"},
                      purchase_price : {UndefinedNumber},
                      current_value : {UndefinedNumber}]]

NextCoupled ==
  \/ Request(First, Relending)
  \/ Statement(First)
  \/ Return(First)

SpecCoupled == Init /\ [][NextCoupled]_vars

\* Deletes racing with the calls that add a reference.  The store at the
\* start is the one left by createCategory (twice), createUser and createAsset
\* in the first category: an asset to move or to lend, and a category
\* without assets to delete.  From there deleteCategory, createAsset,
\* updateAsset, deleteAsset and createLending are served in two slots, their
\* statements interleaved in every order.
InitRace ==
  /\ categories = [c \in AnyCategoryIds |-> [name |-> "c1", description |-> Null]]
  /\ assets = (1 :> [category_id |-> 1, status |-> "available",
                     purchase_price |-> NullNumber, current_value |-> NullNumber])
  /\ lendings = <<>>
  /\ users = (1 :> [username |-> "u1", email |-> "e1"])
  /\ serial = [categories |-> Cardinality(AnyCategoryIds), assets |-> 1,
               lendings |-> 0, users |-> 1]
  /\ now = 1
  /\ calls = [p \in Procs |-> Idle]

Racing ==
  [Concurrent EXCEPT
     !.deleteCategory = AnyCategoryIds,
     !.createAsset = [category_id : AnyCategoryIds, status : {"available"},
                      purchase_price : {UndefinedNumber},
                      current_value : {UndefinedNumber}],
     !.updateAsset = [id : AssetIds, category_id : AnyCategoryIds,
                      status : {Undefined}],
     !.createLending = [asset_id : AssetIds, borrower_name : {"b1"},
                        expected_return_date : {MaxTime}, notes : {Undefined},
                        lent_by_user_id : {1}]]

RaceRequest(p, I) ==
  \/ \E id \in I.deleteCategory : deleteCategory(p, id)
  \/ \E input \in I.createAsset : createAsset(p, input)
  \/ \E input \in I.updateAsset : updateAsset(p, input)
  \/ \E id \in I.deleteAsset : deleteAsset(p, id)
  \/ \E input \in I.createLending : createLending(p, input)

RaceStatement(p) ==
  \/ deleteCategory_selectAssets(p)
  \/ deleteCategory_deleteCategory(p)
  \/ createAsset_insertAsset(p)
  \/ updateAsset_selectCategory(p)
  \/ updateAsset_updateAsset(p)
  \/ deleteAsset_selectLendings(p)
  \/ deleteAsset_deleteAsset(p)
  \/ createLending_selectUser(p)
  \/ createLending_insertLending(p)
  \/ createLending_updateAsset(p)

NextRace ==
  \/ \E p \in Procs : RaceRequest(p, Racing)
  \/ \E p \in Procs : RaceStatement(p)
  \/ \E p \in Procs : Return(p)

SpecRace == InitRace /\ [][NextRace]_vars

\* The same with the administrative override of an asset's status.
NextRelend ==
  \/ Request(First, Relending)
  \/ UpdateAssetRequest(First, Relending)
  \/ Statement(First)
  \/ UpdateAssetStatement(First)
  \/ Return(First)

SpecRelend == Init /\ [][NextRelend]_vars

\* The users: UserDetail draws createUser with two usernames and two emails.
UserDetail ==
  [Concurrent EXCEPT
     !.createUser = [username : {"u1", "u2"}, email : {"e1", "e2"}]]

NextUserDetail ==
  \/ Request(First, UserDetail)
  \/ Statement(First)
  \/ Return(First)

SpecUserDetail == Init /\ [][NextUserDetail]_vars

\* The dashboard, over the stores of the reports.
DashboardStatement(p) ==
  \/ getDashboardSummary_selectCategoriesCount(p)
  \/ getDashboardSummary_selectOverdueLendings(p)
  \/ getDashboardSummary_selectRecentLendings(p)
  \/ getDashboardSummary_selectRecentReturns(p)

NextDashboard ==
  \/ Request(First, Reporting)
  \/ getDashboardSummary(First)
  \/ Statement(First)
  \/ DashboardStatement(First)
  \/ Return(First)
  \/ Tick

SpecDashboard == Init /\ [][NextDashboard]_vars

\* The category summary over stores in which updateAsset has overridden the
\* status of an asset (a lent asset set back to available among them).
Overriding ==
  [Reporting EXCEPT
     !.generateReport =
        {ReportInput("category_summary", NoDate, NoDate, NoId, Undefined)},
     !.updateAsset = [id : AssetIds, category_id : {NoId} \cup CategoryIds,
                      status : {"available"}]]

NextOverride ==
  \/ Request(First, Overriding)
  \/ UpdateAssetRequest(First, Overriding)
  \/ ReportRequest(First, Overriding)
  \/ Statement(First)
  \/ UpdateAssetStatement(First)
  \/ ReportStatement(First)
  \/ Return(First)

SpecOverride == Init /\ [][NextOverride]_vars

\* The reports, and the rate of a summary row for counts up to MaxCount.
NextUtilization ==
  \/ NextReports
  \/ categorySummaryRow_utilizationRate(First)

SpecUtilization == Init /\ [][NextUtilization]_vars

(* =============================== claims ================================ *)
ActiveLendingsOf(a) ==
  {l \in DOMAIN lendings : lendings[l].asset_id = a /\ lendings[l].status = "active"}
Written(p) == {calls[p].wrote[i] : i \in DOMAIN calls[p].wrote}
\* Calls p and q were open at the same time.
Overlapped(p, q) ==
  /\ p # q
  /\ calls[p].op # "idle" /\ calls[q].op # "idle"
  /\ q \in calls[p].overlapped /\ p \in calls[q].overlapped

\* C1: a createLending call on an asset whose status is not available ends
\* with 'Asset is not available for lending'; the asset rows and the lending
\* rows are then exactly as the call found them.
C1_UnavailableAssetRejected ==
  \A p \in Procs :
    (/\ IsDone(p, "createLending")
     /\ calls[p].input.asset_id \in DOMAIN calls[p].pre.assets
     /\ calls[p].pre.assets[calls[p].input.asset_id].status # "available")
    => /\ calls[p].res = AssetNotAvailable
       /\ assets = calls[p].pre.assets
       /\ lendings = calls[p].pre.lendings

C1_Witness ==
  \E p \in Procs :
    /\ IsDone(p, "createLending")
    /\ calls[p].input.asset_id \in DOMAIN calls[p].pre.assets
    /\ calls[p].pre.assets[calls[p].input.asset_id].status = "maintenance"
    /\ calls[p].input.lent_by_user_id \in DOMAIN users
    /\ calls[p].res = AssetNotAvailable

\* C2: of two createLending calls on the same asset that were open at the
\* same time, at most one succeeds.
C2_OneConcurrentLendingSucceeds ==
  \A p, q \in Procs :
    (/\ Overlapped(p, q)
     /\ IsDone(p, "createLending") /\ IsDone(q, "createLending")
     /\ calls[p].input.asset_id = calls[q].input.asset_id)
    => ~(calls[p].res = OK /\ calls[q].res = OK)

\* C3: every asset has at most one lending with status active.
C3_AtMostOneActiveLending ==
  \A a \in AssetIds : Cardinality(ActiveLendingsOf(a)) <= 1

C3_Witness ==
  \E a \in DOMAIN assets :
    /\ Cardinality(ActiveLendingsOf(a)) = 1
    /\ \E l \in DOMAIN lendings :
         lendings[l].asset_id = a /\ lendings[l].status = "returned"

\* C4: a returnAsset call on a lending that is already returned ends with
\* 'Lending record is not active', whatever its asset_condition; the lending
\* rows and the asset rows are then exactly as the call found them.
C4_SecondReturnRejected ==
  \A p \in Procs :
    (/\ IsDone(p, "returnAsset")
     /\ calls[p].input.lending_id \in DOMAIN calls[p].pre.lendings
     /\ calls[p].pre.lendings[calls[p].input.lending_id].status = "returned")
    => /\ calls[p].res = LendingNotActive
       /\ lendings = calls[p].pre.lendings
       /\ assets = calls[p].pre.assets

C4_Witness ==
  \E p \in Procs :
    /\ IsDone(p, "returnAsset")
    /\ calls[p].input.lending_id \in DOMAIN calls[p].pre.lendings
    /\ LET l == calls[p].pre.lendings[calls[p].input.lending_id]
       IN /\ l.status = "returned"
          /\ calls[p].input.asset_condition = "damaged"
          /\ calls[p].input.returned_by_user_id \in DOMAIN users
          /\ assets[l.asset_id].status = "available"
    /\ calls[p].res = LendingNotActive

\* C5: of two returnAsset calls on the same lending that were open at the
\* same time, at most one succeeds.
C5_OneConcurrentReturnSucceeds ==
  \A p, q \in Procs :
    (/\ Overlapped(p, q)
     /\ IsDone(p, "returnAsset") /\ IsDone(q, "returnAsset")
     /\ calls[p].input.lending_id = calls[q].input.lending_id)
    => ~(calls[p].res = OK /\ calls[q].res = OK)

\* C6: in every state (each is visible to the other requests) a createLending
\* or returnAsset call has applied both of its writes or none of them.
C6_WritesAllOrNothing ==
  \A p \in Procs :
    calls[p].op \in {"createLending", "returnAsset"}
    => ("lendings" \in Written(p) <=> "assets" \in Written(p))

\* C7: a call of one of the eight handlers that ended in a NotFound or
\* Conflict error has written nothing: the rows of the four tables are
\* exactly as the call found them.
C7_Handlers ==
  {"createLending", "returnAsset", "updateLending", "createAsset",
   "updateAsset", "deleteAsset", "updateCategory", "deleteCategory"}
C7_RejectedCallWritesNothing ==
  \A p \in Procs :
    (/\ calls[p].op \in C7_Handlers
     /\ calls[p].pc = "done"
     /\ calls[p].res \in NotFoundOrConflict)
    => /\ Store = calls[p].pre
       /\ calls[p].wrote = <<>>

\* A rejection by the second or third statement of a handler.
C7_Witness ==
  /\ \E p \in Procs : IsDone(p, "returnAsset") /\ calls[p].res = UserNotFound
  /\ lendings # <<>>

\* C8: after a successful returnAsset the lending is returned, with
\* actual_return_date and returned_by_user_id set, and its asset's status is
\* damaged for condition damaged, maintenance for needs_maintenance and
\* available for good or no condition.
C8_ReturnSetsLendingAndAsset ==
  \A p \in Procs :
    (IsDone(p, "returnAsset") /\ calls[p].res = OK)
    => LET id == calls[p].input.lending_id
           cond == calls[p].input.asset_condition
           status == assets[calls[p].pre.lendings[id].asset_id].status
       IN /\ lendings[id].status = "returned"
          /\ lendings[id].actual_return_date # NoDate
          /\ lendings[id].returned_by_user_id = calls[p].input.returned_by_user_id
          /\ lendings[id].returned_by_user_id # NoId
          /\ cond = "damaged" => status = "damaged"
          /\ cond = "needs_maintenance" => status = "maintenance"
          /\ cond \in {"good", Undefined} => status = "available"

C8_Witness ==
  \E p \in Procs :
    /\ IsDone(p, "returnAsset") /\ calls[p].res = OK
    /\ calls[p].input.asset_condition = "needs_maintenance"
    /\ assets[lendings[calls[p].input.lending_id].asset_id].status = "maintenance"

\* C9: a lending's status changes only from active to returned; a returned
\* lending stays returned in every step.
C9_ReturnedIsTerminal ==
  [][\A l \in DOMAIN lendings :
       /\ l \in DOMAIN lendings'
       /\ lendings'[l].status # lendings[l].status
          => lendings[l].status = "active" /\ lendings'[l].status = "returned"]_vars

\* An updateLending whose patch carries status active has run on a returned
\* lending.
C9_Witness ==
  \E p \in Procs :
    /\ IsDone(p, "updateLending") /\ calls[p].res = OK
    /\ calls[p].input.updates.status = "active"
    /\ lendings[calls[p].input.id].status = "returned"

\* C10: a deleteAsset call on an asset that has a lending, active or returned,
\* ends with 'Cannot delete asset that has lending history' and the asset
\* rows are as before; and no step removes a lending or moves it to another
\* asset, so the asset keeps its lending history.
C10_Rejected ==
  \A p \in Procs :
    (/\ IsDone(p, "deleteAsset")
     /\ calls[p].input \in DOMAIN calls[p].pre.assets
     /\ \E l \in DOMAIN calls[p].pre.lendings :
          calls[p].pre.lendings[l].asset_id = calls[p].input)
    => /\ calls[p].res = AssetHasLendingHistory
       /\ calls[p].input \in DOMAIN assets
       /\ assets = calls[p].pre.assets
C10_DeleteBlockedByLendingHistory ==
  /\ []C10_Rejected
  /\ [][\A l \in DOMAIN lendings :
          l \in DOMAIN lendings' /\ lendings'[l].asset_id = lendings[l].asset_id]_vars

C10_Witness ==
  \E p \in Procs :
    /\ IsDone(p, "deleteAsset")
    /\ calls[p].res = AssetHasLendingHistory
    /\ \A l \in DOMAIN lendings :
         lendings[l].asset_id = calls[p].input => lendings[l].status = "returned"

\* C11: a deleteCategory call on a category that N >= 1 assets reference ends
\* with 'Cannot delete category with N associated assets', its count being
\* exactly N, and the category row remains; on a category that no asset
\* references it succeeds, and getCategoryById then finds no row.
C11_AssetsOf(p) ==
  {a \in DOMAIN calls[p].pre.assets :
     calls[p].pre.assets[a].category_id = calls[p].input}
C11_DeleteCategoryCountsAssets ==
  \A p \in Procs :
    (IsDone(p, "deleteCategory") /\ calls[p].input \in DOMAIN calls[p].pre.categories)
    => IF Cardinality(C11_AssetsOf(p)) >= 1
         THEN /\ calls[p].res = CategoryHasAssets
              /\ calls[p].loc.count = Cardinality(C11_AssetsOf(p))
              /\ getCategoryById(calls[p].input) = <<calls[p].pre.categories[calls[p].input]>>
         ELSE /\ calls[p].res = OK
              /\ getCategoryById(calls[p].input) = <<>>

\* A deletion refused with count 2, after which the category is still there.
C11_Witness ==
  \E p \in Procs :
    /\ IsDone(p, "deleteCategory")
    /\ calls[p].res = CategoryHasAssets
    /\ calls[p].loc.count = 2
    /\ calls[p].input \in DOMAIN categories

\* C12: in every state (so in each one reached by completed calls) every
\* asset's category_id names a category row, every lending's asset_id names an
\* asset row, and every lending's lent_by_user_id and non-null
\* returned_by_user_id name user rows.
C12_ReferentialIntegrity ==
  /\ \A a \in DOMAIN assets : assets[a].category_id \in DOMAIN categories
  /\ \A l \in DOMAIN lendings :
       /\ lendings[l].asset_id \in DOMAIN assets
       /\ lendings[l].lent_by_user_id \in DOMAIN users
       /\ lendings[l].returned_by_user_id # NoId
          => lendings[l].returned_by_user_id \in DOMAIN users

\* An asset without lendings has been deleted while another asset has a
\* returned lending.
C12_Witness ==
  /\ \E p \in Procs : IsDone(p, "deleteAsset") /\ calls[p].res = OK
  /\ \E l \in DOMAIN lendings : lendings[l].returned_by_user_id # NoId

\* C14: a successful createLending call has inserted exactly one lending row,
\* with status active, no actual_return_date and no returned_by_user_id, and
\* has changed exactly one asset row, its target, whose status is now lent;
\* every other lending, every other asset, every category and every user is
\* as the call found it.
C14_CreateLendingFrame ==
  \A p \in Procs :
    (IsDone(p, "createLending") /\ calls[p].res = OK)
    => LET pre == calls[p].pre
           input == calls[p].input
           inserted == DOMAIN lendings \ DOMAIN pre.lendings
       IN /\ Cardinality(inserted) = 1
          /\ \A l \in inserted :
               /\ lendings[l].asset_id = input.asset_id
               /\ lendings[l].status = "active"
               /\ lendings[l].actual_return_date = NoDate
               /\ lendings[l].returned_by_user_id = NoId
          /\ DOMAIN pre.lendings \subseteq DOMAIN lendings
          /\ \A l \in DOMAIN pre.lendings : lendings[l] = pre.lendings[l]
          /\ assets = [pre.assets EXCEPT ![input.asset_id].status = "lent"]
          /\ pre.assets[input.asset_id].status # "lent"
          /\ categories = pre.categories
          /\ users = pre.users

\* A lending created while another asset was available and another lending
\* existed.
C14_Witness ==
  \E p \in Procs :
    /\ IsDone(p, "createLending") /\ calls[p].res = OK
    /\ \E a \in DOMAIN assets :
         a # calls[p].input.asset_id /\ assets[a].status = "available"
    /\ calls[p].pre.lendings # <<>>

\* C17: createLending checks that the asset exists, then that it is
\* available, then that the user exists: with an absent asset it ends with
\* 'Asset not found' whatever the user; with an asset that is not available
\* and an absent user it ends with 'Asset is not available for lending'; and
\* it ends with 'User not found' only when the asset exists and is available.
C17_CreateLendingCheckOrder ==
  \A p \in Procs :
    IsDone(p, "createLending")
    => LET pre == calls[p].pre
           input == calls[p].input
           assetExists == input.asset_id \in DOMAIN pre.assets
           userExists == input.lent_by_user_id \in DOMAIN pre.users
       IN /\ ~assetExists => calls[p].res = AssetNotFound
          /\ (/\ assetExists
              /\ pre.assets[input.asset_id].status # "available"
              /\ ~userExists) => calls[p].res = AssetNotAvailable
          /\ calls[p].res = UserNotFound
             => /\ assetExists
                /\ pre.assets[input.asset_id].status = "available"
                /\ ~userExists

\* The user is absent and the asset exists but is lent.
C17_Witness ==
  \E p \in Procs :
    /\ IsDone(p, "createLending")
    /\ calls[p].input.lent_by_user_id \notin DOMAIN users
    /\ calls[p].input.asset_id \in DOMAIN assets
    /\ assets[calls[p].input.asset_id].status = "lent"
    /\ calls[p].res = AssetNotAvailable

\* C18: updateAsset checks no status transition: a call on an existing asset
\* whose patch carries a status s of the enum (and no category that does not
\* exist) succeeds and stores s, whatever the asset's status was and whether
\* or not it has an active lending.
C18_UpdateAssetStoresAnyStatus ==
  \A p \in Procs :
    (/\ IsDone(p, "updateAsset")
     /\ calls[p].input.id \in DOMAIN calls[p].pre.assets
     /\ calls[p].input.status \in assetStatusEnum
     /\ calls[p].input.category_id \in {NoId} \cup DOMAIN calls[p].pre.categories)
    => /\ calls[p].res = OK
       /\ assets[calls[p].input.id].status = calls[p].input.status

\* An asset with an active lending has been set from lent to available.
C18_Witness ==
  \E p \in Procs :
    /\ IsDone(p, "updateAsset") /\ calls[p].res = OK
    /\ calls[p].input.status = "available"
    /\ calls[p].pre.assets[calls[p].input.id].status = "lent"
    /\ ActiveLendingsOf(calls[p].input.id) # {}
    /\ assets[calls[p].input.id].status = "available"

\* C13: a successful updateLending call has changed, of the named lending,
\* only the descriptive columns that its patch carries (borrower_name,
\* expected_return_date, notes; an explicit null for notes is carried): its
\* status, asset_id, actual_return_date and user ids, every other lending and
\* every asset row are as the call found them, also when the patch carries
\* values for those columns.
C13_UpdateLendingFrame ==
  \A p \in Procs :
    (IsDone(p, "updateLending") /\ calls[p].res = OK)
    => LET pre == calls[p].pre
           id == calls[p].input.id
           u == calls[p].input.updates
       IN /\ lendings = [pre.lendings EXCEPT
                 ![id].borrower_name =
                    IF u.borrower_name # Undefined THEN u.borrower_name ELSE @,
                 ![id].expected_return_date =
                    IF u.expected_return_date # NoDate THEN u.expected_return_date ELSE @,
                 ![id].notes = IF u.notes # Undefined THEN u.notes ELSE @]
          /\ lendings[id].status = pre.lendings[id].status
          /\ lendings[id].asset_id = pre.lendings[id].asset_id
          /\ lendings[id].actual_return_date = pre.lendings[id].actual_return_date
          /\ lendings[id].lent_by_user_id = pre.lendings[id].lent_by_user_id
          /\ lendings[id].returned_by_user_id = pre.lendings[id].returned_by_user_id
          /\ assets = pre.assets

\* A patch that carries every column has been applied to a lending of the
\* first asset while a second lending exists.
C13_Witness ==
  \E p \in Procs :
    /\ IsDone(p, "updateLending") /\ calls[p].res = OK
    /\ calls[p].input.updates.status = "overdue"
    /\ calls[p].input.updates.asset_id # lendings[calls[p].input.id].asset_id
    /\ lendings[calls[p].input.id].notes = "n2"
    /\ calls[p].pre.lendings[calls[p].input.id].notes = "n1"
    /\ Cardinality(DOMAIN lendings) = 2

\* C15: no statement stores the lending status overdue: in every state
\* reached through createLending, returnAsset and updateLending calls each
\* lending's status is active or returned.
C15_StoredStatusActiveOrReturned ==
  \A l \in DOMAIN lendings : lendings[l].status \in {"active", "returned"}

\* An updateLending whose patch carries status overdue has run on an active
\* lending whose expected_return_date has passed.
C15_Witness ==
  \E p \in Procs :
    /\ IsDone(p, "updateLending") /\ calls[p].res = OK
    /\ calls[p].input.updates.status = "overdue"
    /\ calls[p].pre.lendings[calls[p].input.id].expected_return_date < now
    /\ lendings[calls[p].input.id].status = "active"

\* C20, as stated: after a successful returnAsset the lending's notes are
\* input.return_notes whenever return_notes is provided (not undefined), and
\* are what they were when it is omitted.
C20_NotesReplacedWhenProvided ==
  \A p \in Procs :
    (IsDone(p, "returnAsset") /\ calls[p].res = OK)
    => LET id == calls[p].input.lending_id
           return_notes == calls[p].input.return_notes
       IN lendings[id].notes = IF return_notes # Undefined
                                 THEN return_notes
                                 ELSE calls[p].pre.lendings[id].notes

\* C20, amended: after a successful returnAsset the lending's notes are
\* input.return_notes whenever return_notes is a non-empty string, and are
\* what they were when return_notes is omitted, null or the empty string.
C20_NotesReplacedWhenTruthy ==
  \A p \in Procs :
    (IsDone(p, "returnAsset") /\ calls[p].res = OK)
    => LET id == calls[p].input.lending_id
           return_notes == calls[p].input.return_notes
       IN lendings[id].notes = IF return_notes \notin {Undefined, Null, ""}
                                 THEN return_notes
                                 ELSE calls[p].pre.lendings[id].notes

\* A lending with notes has been returned with return_notes null, and one
\* with return_notes 'r1'.
C20_Witness ==
  /\ \E p \in Procs :
       /\ IsDone(p, "returnAsset") /\ calls[p].res = OK
       /\ calls[p].input.return_notes = Null
       /\ calls[p].pre.lendings[calls[p].input.lending_id].notes = "n1"
       /\ lendings[calls[p].input.lending_id].notes = "n1"
  /\ \E l \in DOMAIN lendings : lendings[l].notes = "r1"

\* C16: getOverdueLendings returns exactly the lendings whose status is
\* active and whose expected_return_date is strictly before the current time;
\* a lending on which returnAsset has succeeded is not returned, even if it
\* was overdue; and a lending whose expected_return_date is in the future is
\* not returned.
C16_OverdueIsActiveAndPastDue ==
  /\ getOverdueLendings =
       {l \in DOMAIN lendings :
          lendings[l].status = "active" /\ lendings[l].expected_return_date < now}
  /\ \A p \in Procs :
       (IsDone(p, "returnAsset") /\ calls[p].res = OK)
       => calls[p].input.lending_id \notin getOverdueLendings
  /\ \A l \in DOMAIN lendings :
       lendings[l].expected_return_date > now => l \notin getOverdueLendings

\* Of two lendings that were overdue one has been returned; the other is the
\* only one listed.
C16_Witness ==
  \E p \in Procs :
    /\ IsDone(p, "returnAsset") /\ calls[p].res = OK
    /\ calls[p].input.lending_id \in DOMAIN calls[p].pre.lendings
    /\ calls[p].pre.lendings[calls[p].input.lending_id].expected_return_date < now
    /\ Cardinality(getOverdueLendings) = 1
    /\ calls[p].input.lending_id \notin getOverdueLendings

\* C19: an updateCategory call on an absent id ends with 'Category with id
\* ... not found' and writes nothing; on a stored category it succeeds, the
\* name and the description are the patch's where the patch carries them (an
\* explicit null description is carried) and are what they were where it
\* omits them, nothing else changes, and the row as stored is returned; with
\* an empty patch it returns the stored row without writing.
C19_UpdateCategoryAppliesPatch ==
  \A p \in Procs :
    IsDone(p, "updateCategory")
    => LET pre == calls[p].pre
           input == calls[p].input
           id == input.id
       IN IF id \notin DOMAIN pre.categories
            THEN /\ calls[p].res = CategoryIdNotFound
                 /\ Store = pre
                 /\ calls[p].wrote = <<>>
            ELSE /\ calls[p].res = OK
                 /\ categories = [pre.categories EXCEPT
                       ![id].name = IF input.name # Undefined THEN input.name ELSE @,
                       ![id].description =
                          IF input.description # Undefined THEN input.description ELSE @]
                 /\ assets = pre.assets /\ lendings = pre.lendings /\ users = pre.users
                 /\ calls[p].loc.returned = <<categories[id]>>
                 /\ (input.name = Undefined /\ input.description = Undefined)
                    => /\ calls[p].wrote = <<>>
                       /\ calls[p].loc.returned = <<pre.categories[id]>>

\* A patch with an explicit null description and no name has been applied to
\* a category that had a description.
C19_Witness ==
  \E p \in Procs :
    /\ IsDone(p, "updateCategory") /\ calls[p].res = OK
    /\ calls[p].input.description = Null /\ calls[p].input.name = Undefined
    /\ calls[p].pre.categories[calls[p].input.id].description = "d2"
    /\ calls[p].pre.categories[calls[p].input.id].name = "c2"
    /\ categories[calls[p].input.id] = [name |-> "c2", description |-> Null]
    /\ assets # <<>>

\* C21: a lending is never deleted: every id that a createLending call has
\* assigned (the ids up to the serial of the lendings) is in the store in
\* every later state, getLendingById returns its row, and no step removes a
\* lending.
C21_Kept ==
  \A l \in 1..serial.lendings :
    l \in DOMAIN lendings /\ getLendingById(l) = <<lendings[l]>>
C21_LendingNeverDeleted ==
  /\ []C21_Kept
  /\ [][DOMAIN lendings \subseteq DOMAIN lendings']_vars

\* A returned lending is still found after a deleteAsset on its asset and a
\* deleteCategory on its category were attempted.
C21_Witness ==
  /\ \E p \in Procs : IsDone(p, "deleteCategory") /\ calls[p].res = CategoryHasAssets
  /\ \E l \in DOMAIN lendings :
       /\ lendings[l].status = "returned"
       /\ getLendingById(l) = <<lendings[l]>>
  /\ Cardinality(DOMAIN lendings) = 2

\* C22: report generation is read-only and does not fail for want of rows:
\* while a generateReport call for one of the five report types is open and
\* when it is over, the rows of the four tables are as the call found them;
\* and the call ends with a report, whose data is empty when no row matches.
C22_ReportsReadOnlyAndTotal ==
  \A p \in Procs :
    (calls[p].op = "generateReport" /\ calls[p].input.report_type \in reportTypeEnum)
    => /\ Store = calls[p].pre
       /\ calls[p].wrote = <<>>
       /\ calls[p].pc = "done" => calls[p].res = OK

\* C23: a generateReport call whose report_type is one of inventory, lending,
\* returns, overdue and category_summary returns a report of that type, and
\* with any other report_type it ends with 'Unsupported report type'.
C23_ReportTypeDispatch ==
  \A p \in Procs :
    IsDone(p, "generateReport")
    => IF calls[p].input.report_type \in reportTypeEnum
         THEN /\ calls[p].res = OK
              /\ calls[p].loc.report_type = calls[p].input.report_type
         ELSE calls[p].res = UnsupportedReportType

\* A generateReport call has returned the report of one type.
Reported(p, report_type) ==
  /\ IsDone(p, "generateReport") /\ calls[p].res = OK
  /\ calls[p].input.report_type = report_type
\* The rows of an inventory report are those of the categories that have an
\* asset passing Filter, one row each, and a row's total_assets is the number
\* of those assets and the sum of its five counts per status.
C25_InventoryRows(p, Filter(_)) ==
  LET pre == calls[p].pre
      data == calls[p].loc.data
      matching(c) == {a \in DOMAIN pre.assets :
                        pre.assets[a].category_id = c /\ Filter(pre.assets[a])}
  IN /\ {r.category_id : r \in data} =
          {c \in DOMAIN pre.categories : matching(c) # {}}
     /\ \A r, q \in data : r.category_id = q.category_id => r = q
     /\ \A r \in data :
          /\ r.total_assets = Cardinality(matching(r.category_id))
          /\ r.total_assets =
               r.available + r.lent + r.maintenance + r.damaged + r.retired

\* The assets of category c, and the lendings of asset a, as a call found them.
PreAssetsOf(p, c) ==
  {a \in DOMAIN calls[p].pre.assets : calls[p].pre.assets[a].category_id = c}
PreLendingsOf(p, a) ==
  {l \in DOMAIN calls[p].pre.lendings : calls[p].pre.lendings[l].asset_id = a}

\* utilization_rate r (in hundredths) is the quotient of activeLendings by
\* totalAssets rounded to two decimals: no further than half a hundredth from
\* it, and 0 when there is no asset.
C24_Rounded(r, activeLendings, totalAssets) ==
  IF totalAssets = 0 THEN r = 0
  ELSE LET d == 100 * activeLendings - r * totalAssets
       IN 2 * (IF d < 0 THEN -d ELSE d) <= totalAssets

\* C24: the utilization_rate of a category_summary row is the number of
\* active lendings of the category's assets divided by the number of its
\* assets, rounded to two decimals, and 0 when the category has no asset;
\* for 4 assets and 2 active lendings it is exactly 0.5 (50 hundredths).
C24_UtilizationRateRounded ==
  \A p \in Procs :
    /\ Reported(p, "category_summary")
       => \A r \in calls[p].loc.data :
            LET of == PreAssetsOf(p, r.category_id)
                active == {l \in DOMAIN calls[p].pre.lendings :
                             /\ calls[p].pre.lendings[l].asset_id \in of
                             /\ calls[p].pre.lendings[l].status = "active"}
            IN C24_Rounded(r.utilization_rate, Cardinality(active), Cardinality(of))
    /\ IsDone(p, "utilizationRate")
       => /\ C24_Rounded(calls[p].loc.utilization_rate,
                         calls[p].input.activeLendings, calls[p].input.totalAssets)
          /\ (calls[p].input.activeLendings = 2 /\ calls[p].input.totalAssets = 4)
             => calls[p].loc.utilization_rate = 50

\* The rate of a category with four assets of which two are lent.
C24_Witness ==
  \E p \in Procs :
    /\ IsDone(p, "utilizationRate")
    /\ calls[p].input = [activeLendings |-> 2, totalAssets |-> 4]
    /\ calls[p].loc.utilization_rate = 50

\* C25, as stated: the filters are category_id and status, each applied when
\* the input carries it.
C25_InventoryByCategoryAndStatus ==
  \A p \in Procs :
    Reported(p, "inventory")
    => LET input == calls[p].input
           Filter(asset) ==
             /\ input.category_id # NoId => asset.category_id = input.category_id
             /\ input.status # Undefined => asset.status = input.status
       IN C25_InventoryRows(p, Filter)

\* C25, amended: the status filter is applied when the input carries a status
\* that is not the empty string; an empty status filters nothing.
C25_InventoryByCategoryAndNonEmptyStatus ==
  \A p \in Procs :
    Reported(p, "inventory")
    => LET input == calls[p].input
           Filter(asset) ==
             /\ input.category_id # NoId => asset.category_id = input.category_id
             /\ input.status \notin {Undefined, ""} => asset.status = input.status
       IN C25_InventoryRows(p, Filter)

\* Of two assets of a category one is available and one is not: the report
\* for status available has one row, which counts one asset.
C25_Witness ==
  \E p \in Procs :
    /\ Reported(p, "inventory")
    /\ calls[p].input.status = "available"
    /\ Cardinality(DOMAIN assets) = 2
    /\ \E r \in calls[p].loc.data : r.total_assets = 1 /\ r.available = 1

\* C26: the category_summary report has exactly one row for every stored
\* category; the row of a category without assets has total_assets 0,
\* total_value 0, utilization_rate 0, both lending counts 0 and 'N/A' for the
\* most-lent and the least-lent asset (with counts 0).
C26_SummaryRowPerCategory ==
  \A p \in Procs :
    Reported(p, "category_summary")
    => LET data == calls[p].loc.data
       IN /\ {r.category_id : r \in data} = DOMAIN calls[p].pre.categories
          /\ \A r, q \in data : r.category_id = q.category_id => r = q
          /\ \A r \in data :
               PreAssetsOf(p, r.category_id) = {}
               => /\ r.total_assets = 0
                  /\ r.total_value = Number(0, 0)
                  /\ r.utilization_rate = 0
                  /\ r.total_lendings = 0 /\ r.active_lendings = 0
                  /\ r.most_lent_asset = "N/A" /\ r.most_lent_count = 0
                  /\ r.least_lent_asset = "N/A" /\ r.least_lent_count = 0

\* The summary of a store whose only category has no asset.
C26_Witness ==
  \E p \in Procs :
    /\ Reported(p, "category_summary")
    /\ categories # <<>> /\ assets = <<>>
    /\ \E r \in calls[p].loc.data : r.total_assets = 0 /\ r.most_lent_asset = "N/A"

\* C27: in each category_summary row of a category that has assets,
\* most_lent_asset names an asset of the category whose number of lendings,
\* active and returned together, is the largest in the category, and
\* most_lent_count is that number; least_lent_asset and least_lent_count are
\* the same for the smallest; so most_lent_count >= least_lent_count.
C27_MostAndLeastLent ==
  \A p \in Procs :
    Reported(p, "category_summary")
    => \A r \in calls[p].loc.data :
         LET of == PreAssetsOf(p, r.category_id)
             n(a) == Cardinality(PreLendingsOf(p, a))
         IN of # {}
            => /\ \E a \in of : /\ r.most_lent_asset = assetName(a)
                                 /\ r.most_lent_count = n(a)
                                 /\ \A b \in of : n(b) <= n(a)
               /\ \E a \in of : /\ r.least_lent_asset = assetName(a)
                                 /\ r.least_lent_count = n(a)
                                 /\ \A b \in of : n(b) >= n(a)
               /\ r.most_lent_count >= r.least_lent_count

\* One asset was lent twice (once returned, once active), the other never.
C27_Witness ==
  \E p \in Procs :
    /\ Reported(p, "category_summary")
    /\ \E r \in calls[p].loc.data :
         /\ r.most_lent_count = 2 /\ r.least_lent_count = 0
         /\ r.active_lendings = 1
         /\ r.most_lent_asset # r.least_lent_asset

\* C28: the returns report has one row for each lending whose
\* actual_return_date is not null and lies within [start_date, end_date]
\* (each bound if given) and no other row; a lending that is active and was
\* never returned has none; returned_by is 'Unknown' for a lending without
\* returning user and the user's name otherwise.
C28_ReturnsInRange ==
  \A p \in Procs :
    Reported(p, "returns")
    => LET pre == calls[p].pre
           input == calls[p].input
           data == calls[p].loc.data
       IN /\ {r.lending_id : r \in data} =
               {l \in DOMAIN pre.lendings :
                  /\ pre.lendings[l].actual_return_date # NoDate
                  /\ input.start_date # NoDate
                     => pre.lendings[l].actual_return_date >= input.start_date
                  /\ input.end_date # NoDate
                     => pre.lendings[l].actual_return_date <= input.end_date}
          /\ \A r, q \in data : r.lending_id = q.lending_id => r = q
          /\ \A r \in data :
               /\ pre.lendings[r.lending_id].status # "active"
               /\ r.returned_by =
                    IF pre.lendings[r.lending_id].returned_by_user_id = NoId
                      THEN "Unknown"
                      ELSE pre.users[pre.lendings[r.lending_id].returned_by_user_id].username

\* A lending lent at the first instant and returned at the second is in the
\* report for the returns from the second instant on; an active one is not.
C28_Witness ==
  \E p \in Procs :
    /\ Reported(p, "returns")
    /\ calls[p].input.start_date = MaxTime
    /\ \E r \in calls[p].loc.data :
         /\ lendings[r.lending_id].lent_date < calls[p].input.start_date
         /\ r.returned_by = "u1"
    /\ \E l \in DOMAIN lendings : lendings[l].status = "active"
    /\ Cardinality(calls[p].loc.data) = 1

\* C29: the overdue report has one row for each lending with status active
\* and expected_return_date before the time of the report and no other row,
\* so none for a returned lending; a row's days_overdue is the number of
\* whole days from expected_return_date to that time, and is not negative.
C29_OverdueRowsAndDays ==
  \A p \in Procs :
    Reported(p, "overdue")
    => LET pre == calls[p].pre
           today == calls[p].loc.generated_at
           data == calls[p].loc.data
       IN /\ {r.lending_id : r \in data} =
               {l \in DOMAIN pre.lendings :
                  /\ pre.lendings[l].status = "active"
                  /\ pre.lendings[l].expected_return_date < today}
          /\ \A r, q \in data : r.lending_id = q.lending_id => r = q
          /\ \A r \in data :
               LET late == today - pre.lendings[r.lending_id].expected_return_date
               IN /\ r.days_overdue >= 0
                  /\ r.days_overdue * TicksPerDay <= late
                  /\ late < (r.days_overdue + 1) * TicksPerDay
                  /\ pre.lendings[r.lending_id].status # "returned"

\* One lending is overdue by a day and a half; another, overdue too, was
\* returned and has no row.
C29_Witness ==
  \E p \in Procs :
    /\ Reported(p, "overdue")
    /\ \E r \in calls[p].loc.data :
         /\ r.days_overdue = 1
         /\ calls[p].loc.generated_at - r.expected_return_date = 3
    /\ \E l \in DOMAIN lendings :
         /\ lendings[l].status = "returned"
         /\ lendings[l].expected_return_date < calls[p].loc.generated_at
    /\ Cardinality(calls[p].loc.data) = 1

\* The price a caller expects back: the number sent, or null for a price
\* that was omitted or null.
C30_Expected(v) == IF IsNumber(v) THEN v ELSE NullNumber

\* createAsset has returned in slot p, and getAssetById of the new asset
\* returns the two prices that were sent.
C30_RoundTrip(p) ==
  /\ calls[p].res = OK
  /\ \E row \in {[assets[serial.assets] EXCEPT
                     !.purchase_price = C30_Expected(calls[p].input.purchase_price),
                     !.current_value = C30_Expected(calls[p].input.current_value)]} :
       getAssetById(serial.assets) = <<row>>

\* C30 as stated: for every positive price with at most two decimals,
\* createAsset (in an existing category) followed by getAssetById returns
\* purchase_price and current_value as the numbers sent, and null for a
\* price that was omitted or null.
C30_PriceRoundTrip ==
  \A p \in Procs :
    (IsDone(p, "createAsset") /\ calls[p].res # CategoryDoesNotExist)
    => C30_RoundTrip(p)

\* C30, amended: the same for prices below 100,000,000, the range of the
\* numeric(10, 2) columns.
C30_PriceRoundTripInRange ==
  \A p \in Procs :
    (/\ IsDone(p, "createAsset") /\ calls[p].res # CategoryDoesNotExist
     /\ \A v \in {calls[p].input.purchase_price, calls[p].input.current_value} :
          IsNumber(v) => v.whole < NumericIntegerLimit)
    => C30_RoundTrip(p)

\* An asset created with purchase_price 1500.50 and no current_value is read
\* back with the number 1500.50 and null.
C30_Witness ==
  \E p \in Procs :
    /\ IsDone(p, "createAsset") /\ calls[p].res = OK
    /\ calls[p].input.purchase_price = Number(1500, 50)
    /\ calls[p].input.current_value = UndefinedNumber
    /\ getAssetById(serial.assets)[1].purchase_price = Number(1500, 50)
    /\ getAssetById(serial.assets)[1].current_value = NullNumber

\* C31: the counts of a getDashboardSummary call are those of the store:
\* total_assets is the number of assets, available_assets, lent_assets and
\* assets_in_maintenance the numbers of assets with those statuses,
\* total_categories the number of categories and overdue_lendings the number
\* of active lendings whose expected_return_date is before the call's now.
C31_DashboardCounts ==
  \A p \in Procs :
    IsDone(p, "getDashboardSummary")
    => LET d == calls[p].loc
           CountAssets(status) ==
             Cardinality({a \in DOMAIN assets : assets[a].status = status})
       IN /\ Store = calls[p].pre
          /\ d.total_assets = Cardinality(DOMAIN assets)
          /\ d.available_assets = CountAssets("available")
          /\ d.lent_assets = CountAssets("lent")
          /\ d.assets_in_maintenance = CountAssets("maintenance")
          /\ d.total_categories = Cardinality(DOMAIN categories)
          /\ d.now \in 1..now
          /\ d.overdue_lendings =
               Cardinality({l \in DOMAIN lendings :
                              /\ lendings[l].status = "active"
                              /\ lendings[l].expected_return_date < d.now})

\* A dashboard of a store with a damaged asset and a lent one whose lending
\* is overdue.
C31_Witness ==
  \E p \in Procs :
    /\ IsDone(p, "getDashboardSummary")
    /\ calls[p].loc.total_assets = 2 /\ calls[p].loc.lent_assets = 1
    /\ calls[p].loc.available_assets = 0
    /\ calls[p].loc.overdue_lendings = 1
    /\ \E a \in DOMAIN assets : assets[a].status = "damaged"

\* C32: no two stored users share a username or an email; a createUser call
\* with the username of a stored user ends with 'Username already exists',
\* one with the email of a stored user with 'Email already exists', and
\* neither adds a user; any other call adds the user.
C32_UsersUnique ==
  /\ \A u, v \in DOMAIN users :
       (users[u].username = users[v].username \/ users[u].email = users[v].email)
       => u = v
  /\ \A p \in Procs :
       IsDone(p, "createUser")
       => LET pre == calls[p].pre.users
              input == calls[p].input
          IN IF \E u \in DOMAIN pre : pre[u].username = input.username
               THEN calls[p].res = UsernameExists /\ users = pre
             ELSE IF \E u \in DOMAIN pre : pre[u].email = input.email
               THEN calls[p].res = EmailExists /\ users = pre
             ELSE /\ calls[p].res = OK
                  /\ DOMAIN users = DOMAIN pre \cup {serial.users}
                  /\ serial.users \notin DOMAIN pre
                  /\ users[serial.users].username = input.username
                  /\ users[serial.users].email = input.email

\* A second user is refused for its email, the username being new.
C32_Witness ==
  \E p \in Procs :
    /\ IsDone(p, "createUser") /\ calls[p].res = EmailExists
    /\ Cardinality(DOMAIN users) = 1
    /\ \A u \in DOMAIN users : users[u].username # calls[p].input.username

\* C33: in every state reached through createLending, returnAsset and
\* updateLending, a lending has status returned if and only if its
\* actual_return_date is set, and if and only if its returned_by_user_id is
\* set.
C33_ReturnedIffReturnColumns ==
  \A l \in DOMAIN lendings :
    /\ lendings[l].status = "returned" <=> lendings[l].actual_return_date # NoDate
    /\ lendings[l].status = "returned" <=> lendings[l].returned_by_user_id # NoId

\* A returned lending, and an active one after an updateLending call that
\* named return columns.
C33_Witness ==
  /\ \E l \in DOMAIN lendings :
       /\ lendings[l].status = "returned"
       /\ lendings[l].actual_return_date # NoDate
       /\ lendings[l].returned_by_user_id # NoId
  /\ \E p \in Procs, l \in DOMAIN lendings :
       /\ IsDone(p, "updateLending") /\ calls[p].res = OK
       /\ calls[p].input.id = l
       /\ calls[p].input.updates.actual_return_date # NoDate
       /\ lendings[l].status = "active"
       /\ lendings[l].actual_return_date = NoDate

\* C34: in every state reached by completed createAsset (with status
\* available), createLending, returnAsset and updateLending calls, without
\* updateAsset, an asset's status is lent if and only if it has exactly one
\* active lending.
C34_LentIffOneActiveLending ==
  (\A p \in Procs : ~InFlight(p))
  => \A a \in DOMAIN assets :
       assets[a].status = "lent" <=> Cardinality(ActiveLendingsOf(a)) = 1

\* No call is in flight and an asset that was lent and returned is lent again.
C34_Witness ==
  /\ \A p \in Procs : ~InFlight(p)
  /\ \E a \in DOMAIN assets :
       /\ assets[a].status = "lent"
       /\ Cardinality(ActiveLendingsOf(a)) = 1
       /\ \E l \in DOMAIN lendings :
            lendings[l].asset_id = a /\ lendings[l].status = "returned"

\* C35: under every interleaving of deleteCategory with a createAsset or an
\* updateAsset that names the category, and of deleteAsset with a
\* createLending on the asset, no state is reached in which an asset
\* references a deleted category or a lending a deleted asset.
C35_NoDanglingReference ==
  /\ \A a \in DOMAIN assets : assets[a].category_id \in DOMAIN categories
  /\ \A l \in DOMAIN lendings : lendings[l].asset_id \in DOMAIN assets

\* A deleteCategory call and an updateAsset call that moves an asset into the
\* category have both passed their checks; the delete came first and the
\* store has refused the update.
C35_Witness ==
  \E p, q \in Procs :
    /\ IsDone(p, "updateAsset") /\ calls[p].res = ForeignKeyViolation
    /\ q \in calls[p].overlapped
    /\ calls[q].op = "deleteCategory"
    /\ calls[p].input.category_id = calls[q].input
    /\ calls[p].input.category_id \notin DOMAIN categories

\* Asset a has been returned: it has a returned lending and no active one.
C36_Returned(ls, a) ==
  /\ \E l \in DOMAIN ls : ls[l].asset_id = a /\ ls[l].status = "returned"
  /\ \A l \in DOMAIN ls : ls[l].asset_id = a => ls[l].status # "active"

\* After a successful returnAsset the asset is available when the condition
\* was good or omitted and not available when it was damaged or
\* needs_maintenance; a createLending call with an existing user on an asset
\* that has been returned succeeds when the asset is available and ends with
\* 'not available' otherwise.
C36_LendableIffAvailable ==
  \A p \in Procs :
    /\ (IsDone(p, "returnAsset") /\ calls[p].res = OK)
       => LET a == calls[p].loc.lending.asset_id
          IN assets[a].status = "available"
             <=> calls[p].input.asset_condition \in {"good", Undefined}
    /\ (/\ IsDone(p, "createLending")
        /\ calls[p].input.asset_id \in DOMAIN calls[p].pre.assets
        /\ C36_Returned(calls[p].pre.lendings, calls[p].input.asset_id)
        /\ calls[p].input.lent_by_user_id \in DOMAIN calls[p].pre.users)
       => IF calls[p].pre.assets[calls[p].input.asset_id].status = "available"
            THEN calls[p].res = OK
            ELSE calls[p].res = AssetNotAvailable

\* Once its return is over, a returned asset that is not available becomes
\* available only by the update statement of an updateAsset call that sets
\* its status to available.
C36_OnlyUpdateAssetRestores ==
  \A a \in DOMAIN assets :
    (/\ C36_Returned(lendings, a)
     /\ \A p \in Procs : ~(calls[p].op = "returnAsset" /\ InFlight(p))
     /\ assets[a].status # "available"
     /\ a \in DOMAIN assets' /\ assets'[a].status = "available")
    => \E p \in Procs :
         /\ At(p, "updateAsset", "updateAsset")
         /\ calls[p].input.id = a /\ calls[p].input.status = "available"

\* C36: following a successful returnAsset with asset_condition good or
\* omitted, a createLending on the same asset with an existing user succeeds;
\* following a return with damaged or needs_maintenance it fails, until
\* updateAsset sets the asset's status back to available.
C36_LendableAgainAfterGoodReturn ==
  /\ []C36_LendableIffAvailable
  /\ [][C36_OnlyUpdateAssetRestores]_vars

\* A createLending call on an asset that has been returned has succeeded.
C36_Witness ==
  \E p \in Procs :
    /\ IsDone(p, "createLending") /\ calls[p].res = OK
    /\ C36_Returned(calls[p].pre.lendings, calls[p].input.asset_id)
    /\ assets[calls[p].input.asset_id].status = "lent"

C38_LendingListings ==
  /\ \A l \in DOMAIN lendings : Cardinality({t \in getLendings : t[1] = l}) = 1
  /\ {t[1] : t \in getLendings} = DOMAIN lendings
  /\ getActiveLendings = {t \in getLendings : lendings[t[1]].status = "active"}
  /\ getOverdueLendings \subseteq {t[1] : t \in getActiveLendings}

\* Two assets and two lendings are stored, one returned and one active and
\* overdue.
C38_Witness ==
  /\ Cardinality(DOMAIN assets) = 2
  /\ Cardinality(getLendings) = 2
  /\ Cardinality(getActiveLendings) = 1
  /\ Cardinality(getOverdueLendings) = 1
  /\ \E l \in DOMAIN lendings : lendings[l].status = "returned"

=============================================================================
